---- MODULE Spec2Model ----
(***************************************************************************)
(* A model of the compliance analysis pipeline: the document classifier    *)
(* (core/classify.py), the generation service wrapper (core/llm.py), the   *)
(* process/checklist validator (core/checklist.py), the red-flag detector  *)
(* (core/redflags.py), the report generator (core/report.py) and the run   *)
(* that chains them (process_documents in app.py).                         *)
(*                                                                         *)
(* Numbers.  A match score is kept in tenths of a point (95 is 950) and a  *)
(* confidence in thousandths (0.7 is 700), so that best_score / 100.0 is   *)
(* the identity on the scaled value and content_score * 0.8 stays an       *)
(* integer.                                                                *)
(*                                                                         *)
(* Text.  A document body is a sequence of phrases (separated by filler    *)
(* that matches nothing) with the places where its 500th and 2000th        *)
(* characters fall; Python's `in`, str.lower and re.search are evaluated   *)
(* on the phrases of the vocabulary and tabulated below.                   *)
(***************************************************************************)
EXTENDS Integers, Sequences, FiniteSets, TLC

VARIABLES
    pc,            \* where the operation under way stands
    filename,      \* classify: the filename argument
    text,          \* classify: the text argument
    rule_result,   \* classify: rule_result (line 85)
    llm_result,    \* classify: llm_result (line 91)
    rag_response,  \* what self.rag.search did in this call
    llm_response,  \* what self.llm.query did in this call
    rag_calls,     \* calls of the Knowledge Retrieval Service by the operation
    llm_calls,     \* calls of the Text Generation Service by the operation
    result,        \* what classify or detect_issues returned (or raised)
    documents,     \* the classified documents of the run (processed_docs)
    process_info,  \* what infer_process returned
    checklist_result,  \* what validate_checklist returned
    document,      \* detect_issues: the document argument
    issues,        \* detect_issues: the list of issues collected so far
    uploaded_files,  \* process_documents: the files of the run
    file_index,    \* process_documents: the file the first loop stands at
    doc_index,     \* process_documents: the document the second loop stands at
    issue_lists,   \* the lists detect_issues returned, one per document
    all_issues,    \* process_documents: all_issues
    report         \* what generate_report returned

clvars == <<filename, text, rule_result, llm_result>>
svvars == <<rag_response, llm_response, rag_calls, llm_calls>>
ckvars == <<documents, process_info, checklist_result>>
dtvars == <<document, issues>>
plvars == <<uploaded_files, file_index, doc_index, issue_lists, all_issues, report>>
vars == <<pc, clvars, svvars, result, ckvars, dtvars, plvars>>

NoneVal == "<None>"

\* The outcome of a Python call: a returned value or a raised exception.
Ok(v) == [raised |-> FALSE, value |-> v]
Raise(e) == [raised |-> TRUE, value |-> e]

\* Before a call: no service response, no classification.
NotCalled == [raised |-> FALSE, value |-> "not_called"]
NoClassification == [type |-> NoneVal, confidence |-> 0, method |-> NoneVal]

Max(S) == CHOOSE m \in S : \A x \in S : x <= m

(***************************************************************************)
(* Bounds of the model                                                     *)
(***************************************************************************)
MaxBodyLen == 2
MaxDocs == 4
MaxFiles == 3

(***************************************************************************)
(* core/classify.py: the tables                                            *)
(***************************************************************************)
doc_types ==
    << "Articles of Association", "Memorandum of Association",
       "Board Resolution", "Shareholder Resolution",
       "Incorporation Application", "UBO Declaration",
       "Register of Members", "Register of Directors",
       "Register of Members and Directors",
       "Change of Registered Address Notice", "Employment Contract",
       "Compliance Policy", "Commercial Agreement", "Licensing Filing" >>

Labels == {doc_types[i] : i \in DOMAIN doc_types}

keywords ==
    [t \in Labels |->
      CASE t = "Articles of Association" ->
             <<"articles of association", "aoa", "articles", "company constitution">>
        [] t = "Memorandum of Association" ->
             <<"memorandum of association", "moa", "memorandum", "company memorandum">>
        [] t = "Board Resolution" ->
             <<"board resolution", "directors resolution", "board meeting",
               "director resolution">>
        [] t = "Shareholder Resolution" ->
             <<"shareholder resolution", "members resolution", "shareholders meeting">>
        [] t = "Incorporation Application" ->
             <<"incorporation application", "application for incorporation",
               "company incorporation", "incorporation form">>
        [] t = "UBO Declaration" ->
             <<"ultimate beneficial owner", "beneficial ownership", "ubo declaration",
               "beneficial owner", "ubo">>
        [] t = "Register of Members" ->
             <<"register of members", "members register", "share register",
               "shareholder register">>
        [] t = "Register of Directors" ->
             <<"register of directors", "directors register", "director register">>
        [] t = "Register of Members and Directors" ->
             <<"register of members and directors", "combined register",
               "members and directors register">>
        [] t = "Change of Registered Address Notice" ->
             <<"change of registered address", "registered office change",
               "address change">>
        [] t = "Employment Contract" ->
             <<"employment contract", "employment agreement", "service agreement",
               "employee contract">>
        [] t = "Compliance Policy" ->
             <<"compliance policy", "policy document", "procedure", "risk policy",
               "governance policy">>
        [] t = "Commercial Agreement" ->
             <<"commercial agreement", "service agreement", "consultancy agreement",
               "nda", "non-disclosure", "sha", "shareholder agreement">>
        [] t = "Licensing Filing" ->
             <<"licensing application", "license application", "regulatory filing",
               "business plan", "licensing">> ]

patterns ==
    [t \in {"Articles of Association", "Memorandum of Association", "Board Resolution",
            "UBO Declaration", "Register of Members", "Register of Directors"} |->
      CASE t = "Articles of Association" ->
             <<"articles\\s+of\\s+association", "company\\s+constitution",
               "constitutional\\s+document">>
        [] t = "Memorandum of Association" ->
             <<"memorandum\\s+of\\s+association", "company\\s+memorandum">>
        [] t = "Board Resolution" ->
             <<"board\\s+resolution", "directors?\\s+resolution",
               "resolution\\s+of\\s+the\\s+board">>
        [] t = "UBO Declaration" ->
             <<"ultimate\\s+beneficial\\s+owner", "beneficial\\s+ownership\\s+declaration",
               "ubo\\s+declaration">>
        [] t = "Register of Members" ->
             <<"register\\s+of\\s+members", "members?\\s+register">>
        [] t = "Register of Directors" ->
             <<"register\\s+of\\s+directors?", "directors?\\s+register">> ]

\* The fixed scores and thresholds of the classifier.
ExactScore == 950
TitleScore == 900
FuzzyPenaltyTenths == 8
UnknownBelow == 400
RuleThreshold == 700
LlmMatched == 600
LlmUnmatched == 300
LlmFailed == 200
FullConfidence == 1000
FullRatio == 1000

(***************************************************************************)
(* Strings.  The tables give, for each string of the vocabulary, its lower *)
(* case, the needles (keywords, labels, words of labels) that are          *)
(* substrings of it, and the patterns that re.search finds in it.          *)
(***************************************************************************)
\* ---- tables: begin
Lower(s) ==
    CASE s = "ARTICLES OF ASSOCIATION" -> "articles of association"
      [] s = "Register of Members and Directors" -> "register of members and directors"
      [] s = "Constitutional Document" -> "constitutional document"
      [] s = "Limited by Guarantee" -> "limited by guarantee"
      [] s = "Articles of Association" -> "articles of association"
      [] s = "Unknown" -> "unknown"
      [] s = "Error: Could not process query - timeout" -> "error: could not process query - timeout"
      [] s = "Error: Could not process query - no quota for request 'Licensing Filing'" -> "error: could not process query - no quota for request 'licensing filing'"
      [] s = "Disputes are heard by the Dubai Courts" -> "disputes are heard by the dubai courts"
      [] s = "ADGM Courts have exclusive jurisdiction" -> "adgm courts have exclusive jurisdiction"
      [] s = "Signed by the directors at the general meeting" -> "signed by the directors at the general meeting"
      [] s = "the UAE Federal Courts or the Courts of Dubai" -> "the uae federal courts or the courts of dubai"
      [] s = "Memorandum of Association" -> "memorandum of association"
      [] s = "Board Resolution" -> "board resolution"
      [] s = "Shareholder Resolution" -> "shareholder resolution"
      [] s = "Incorporation Application" -> "incorporation application"
      [] s = "UBO Declaration" -> "ubo declaration"
      [] s = "Register of Members" -> "register of members"
      [] s = "Register of Directors" -> "register of directors"
      [] s = "Change of Registered Address Notice" -> "change of registered address notice"
      [] s = "Employment Contract" -> "employment contract"
      [] s = "Compliance Policy" -> "compliance policy"
      [] s = "Commercial Agreement" -> "commercial agreement"
      [] s = "Licensing Filing" -> "licensing filing"
      [] s = "References uae federal courts instead of ADGM Courts" -> "references uae federal courts instead of adgm courts"
      [] s = "References dubai courts instead of ADGM Courts" -> "references dubai courts instead of adgm courts"
      [] s = "References abu dhabi courts instead of ADGM Courts" -> "references abu dhabi courts instead of adgm courts"
      [] s = "References federal courts of uae instead of ADGM Courts" -> "references federal courts of uae instead of adgm courts"
      [] s = "References courts of dubai instead of ADGM Courts" -> "references courts of dubai instead of adgm courts"
      [] s = "Missing explicit ADGM Courts jurisdiction reference" -> "missing explicit adgm courts jurisdiction reference"
      [] s = "Registered office address must be within ADGM" -> "registered office address must be within adgm"
      [] s = "Missing signature block or execution provisions" -> "missing signature block or execution provisions"
      [] s = "Document does not clearly reference ADGM jurisdiction" -> "document does not clearly reference adgm jurisdiction"
      [] s = "Missing or unclear objects provisions" -> "missing or unclear objects provisions"
      [] s = "Missing or unclear share capital provisions" -> "missing or unclear share capital provisions"
      [] s = "Missing or unclear directors provisions" -> "missing or unclear directors provisions"
      [] s = "Missing or unclear meetings provisions" -> "missing or unclear meetings provisions"
      [] s = "Missing or unclear transfers provisions" -> "missing or unclear transfers provisions"
      [] s = "Missing required UBO particulars: name" -> "missing required ubo particulars: name"
      [] s = "Missing required UBO particulars: birth" -> "missing required ubo particulars: birth"
      [] s = "Missing required UBO particulars: name, birth" -> "missing required ubo particulars: name, birth"
      [] s = "Missing required UBO particulars: nationality" -> "missing required ubo particulars: nationality"
      [] s = "Missing required UBO particulars: name, nationality" -> "missing required ubo particulars: name, nationality"
      [] s = "Missing required UBO particulars: birth, nationality" -> "missing required ubo particulars: birth, nationality"
      [] s = "Missing required UBO particulars: name, birth, nationality" -> "missing required ubo particulars: name, birth, nationality"
      [] s = "Missing required UBO particulars: address" -> "missing required ubo particulars: address"
      [] s = "Missing required UBO particulars: name, address" -> "missing required ubo particulars: name, address"
      [] s = "Missing required UBO particulars: birth, address" -> "missing required ubo particulars: birth, address"
      [] s = "Missing required UBO particulars: name, birth, address" -> "missing required ubo particulars: name, birth, address"
      [] s = "Missing required UBO particulars: nationality, address" -> "missing required ubo particulars: nationality, address"
      [] s = "Missing required UBO particulars: name, nationality, address" -> "missing required ubo particulars: name, nationality, address"
      [] s = "Missing required UBO particulars: birth, nationality, address" -> "missing required ubo particulars: birth, nationality, address"
      [] s = "Missing required UBO particulars: name, birth, nationality, address" -> "missing required ubo particulars: name, birth, nationality, address"
      [] s = "Missing required UBO particulars: passport" -> "missing required ubo particulars: passport"
      [] s = "Missing required UBO particulars: name, passport" -> "missing required ubo particulars: name, passport"
      [] s = "Missing required UBO particulars: birth, passport" -> "missing required ubo particulars: birth, passport"
      [] s = "Missing required UBO particulars: name, birth, passport" -> "missing required ubo particulars: name, birth, passport"
      [] s = "Missing required UBO particulars: nationality, passport" -> "missing required ubo particulars: nationality, passport"
      [] s = "Missing required UBO particulars: name, nationality, passport" -> "missing required ubo particulars: name, nationality, passport"
      [] s = "Missing required UBO particulars: birth, nationality, passport" -> "missing required ubo particulars: birth, nationality, passport"
      [] s = "Missing required UBO particulars: name, birth, nationality, passport" -> "missing required ubo particulars: name, birth, nationality, passport"
      [] s = "Missing required UBO particulars: address, passport" -> "missing required ubo particulars: address, passport"
      [] s = "Missing required UBO particulars: name, address, passport" -> "missing required ubo particulars: name, address, passport"
      [] s = "Missing required UBO particulars: birth, address, passport" -> "missing required ubo particulars: birth, address, passport"
      [] s = "Missing required UBO particulars: name, birth, address, passport" -> "missing required ubo particulars: name, birth, address, passport"
      [] s = "Missing required UBO particulars: nationality, address, passport" -> "missing required ubo particulars: nationality, address, passport"
      [] s = "Missing required UBO particulars: name, nationality, address, passport" -> "missing required ubo particulars: name, nationality, address, passport"
      [] s = "Missing required UBO particulars: birth, nationality, address, passport" -> "missing required ubo particulars: birth, nationality, address, passport"
      [] s = "Missing required UBO particulars: name, birth, nationality, address, passport" -> "missing required ubo particulars: name, birth, nationality, address, passport"
      [] s = "Missing required UBO particulars: ownership" -> "missing required ubo particulars: ownership"
      [] s = "Missing required UBO particulars: name, ownership" -> "missing required ubo particulars: name, ownership"
      [] s = "Missing required UBO particulars: birth, ownership" -> "missing required ubo particulars: birth, ownership"
      [] s = "Missing required UBO particulars: name, birth, ownership" -> "missing required ubo particulars: name, birth, ownership"
      [] s = "Missing required UBO particulars: nationality, ownership" -> "missing required ubo particulars: nationality, ownership"
      [] s = "Missing required UBO particulars: name, nationality, ownership" -> "missing required ubo particulars: name, nationality, ownership"
      [] s = "Missing required UBO particulars: birth, nationality, ownership" -> "missing required ubo particulars: birth, nationality, ownership"
      [] s = "Missing required UBO particulars: name, birth, nationality, ownership" -> "missing required ubo particulars: name, birth, nationality, ownership"
      [] s = "Missing required UBO particulars: address, ownership" -> "missing required ubo particulars: address, ownership"
      [] s = "Missing required UBO particulars: name, address, ownership" -> "missing required ubo particulars: name, address, ownership"
      [] s = "Missing required UBO particulars: birth, address, ownership" -> "missing required ubo particulars: birth, address, ownership"
      [] s = "Missing required UBO particulars: name, birth, address, ownership" -> "missing required ubo particulars: name, birth, address, ownership"
      [] s = "Missing required UBO particulars: nationality, address, ownership" -> "missing required ubo particulars: nationality, address, ownership"
      [] s = "Missing required UBO particulars: name, nationality, address, ownership" -> "missing required ubo particulars: name, nationality, address, ownership"
      [] s = "Missing required UBO particulars: birth, nationality, address, ownership" -> "missing required ubo particulars: birth, nationality, address, ownership"
      [] s = "Missing required UBO particulars: name, birth, nationality, address, ownership" -> "missing required ubo particulars: name, birth, nationality, address, ownership"
      [] s = "Missing required UBO particulars: passport, ownership" -> "missing required ubo particulars: passport, ownership"
      [] s = "Missing required UBO particulars: name, passport, ownership" -> "missing required ubo particulars: name, passport, ownership"
      [] s = "Missing required UBO particulars: birth, passport, ownership" -> "missing required ubo particulars: birth, passport, ownership"
      [] s = "Missing required UBO particulars: name, birth, passport, ownership" -> "missing required ubo particulars: name, birth, passport, ownership"
      [] s = "Missing required UBO particulars: nationality, passport, ownership" -> "missing required ubo particulars: nationality, passport, ownership"
      [] s = "Missing required UBO particulars: name, nationality, passport, ownership" -> "missing required ubo particulars: name, nationality, passport, ownership"
      [] s = "Missing required UBO particulars: birth, nationality, passport, ownership" -> "missing required ubo particulars: birth, nationality, passport, ownership"
      [] s = "Missing required UBO particulars: name, birth, nationality, passport, ownership" -> "missing required ubo particulars: name, birth, nationality, passport, ownership"
      [] s = "Missing required UBO particulars: address, passport, ownership" -> "missing required ubo particulars: address, passport, ownership"
      [] s = "Missing required UBO particulars: name, address, passport, ownership" -> "missing required ubo particulars: name, address, passport, ownership"
      [] s = "Missing required UBO particulars: birth, address, passport, ownership" -> "missing required ubo particulars: birth, address, passport, ownership"
      [] s = "Missing required UBO particulars: name, birth, address, passport, ownership" -> "missing required ubo particulars: name, birth, address, passport, ownership"
      [] s = "Missing required UBO particulars: nationality, address, passport, ownership" -> "missing required ubo particulars: nationality, address, passport, ownership"
      [] s = "Missing required UBO particulars: name, nationality, address, passport, ownership" -> "missing required ubo particulars: name, nationality, address, passport, ownership"
      [] s = "Missing required UBO particulars: birth, nationality, address, passport, ownership" -> "missing required ubo particulars: birth, nationality, address, passport, ownership"
      [] s = "Missing required UBO particulars: name, birth, nationality, address, passport, ownership" -> "missing required ubo particulars: name, birth, nationality, address, passport, ownership"
      [] s = "Potentially non-binding language: \"may be\"" -> "potentially non-binding language: \"may be\""
      [] s = "Potentially non-binding language: \"should be\"" -> "potentially non-binding language: \"should be\""
      [] s = "No registered office clause" -> "no registered office clause"
      [] s = "Vague objects" -> "vague objects"
      [] s = "No UBO register" -> "no ubo register"
      [] s = "Jurisdiction clause" -> "jurisdiction clause"
      [] s = "Registered office" -> "registered office"
      [] s = "Execution block" -> "execution block"
      [] s = "Required particulars" -> "required particulars"
      [] s = "Language clarity" -> "language clarity"
      [] s = "ADGM references" -> "adgm references"
      [] s = "LLM Analysis" -> "llm analysis"
      [] s = "Objects provisions" -> "objects provisions"
      [] s = "Share Capital provisions" -> "share capital provisions"
      [] s = "Directors provisions" -> "directors provisions"
      [] s = "Meetings provisions" -> "meetings provisions"
      [] s = "Transfers provisions" -> "transfers provisions"
      [] OTHER -> s

Split(s) ==
    CASE s = "articles of association" -> <<"articles", "of", "association">>
      [] s = "memorandum of association" -> <<"memorandum", "of", "association">>
      [] s = "board resolution" -> <<"board", "resolution">>
      [] s = "shareholder resolution" -> <<"shareholder", "resolution">>
      [] s = "incorporation application" -> <<"incorporation", "application">>
      [] s = "ubo declaration" -> <<"ubo", "declaration">>
      [] s = "register of members" -> <<"register", "of", "members">>
      [] s = "register of directors" -> <<"register", "of", "directors">>
      [] s = "register of members and directors" -> <<"register", "of", "members", "and", "directors">>
      [] s = "change of registered address notice" -> <<"change", "of", "registered", "address", "notice">>
      [] s = "employment contract" -> <<"employment", "contract">>
      [] s = "compliance policy" -> <<"compliance", "policy">>
      [] s = "commercial agreement" -> <<"commercial", "agreement">>
      [] s = "licensing filing" -> <<"licensing", "filing">>
      [] OTHER -> <<s>>

SubstringsOf(s) ==
    CASE s = "Register of Members and Directors" -> {"and", "of"}
      [] s = "the parties shall agree" -> {"sha"}
      [] s = "share capital" -> {"sha", "share capital", "capital"}
      [] s = "Articles of Association" -> {"of"}
      [] s = "a resolution passed by the board" -> {"board", "resolution"}
      [] s = "ADGM Courts have exclusive jurisdiction" -> {"jurisdiction"}
      [] s = "Signed by the directors at the general meeting" -> {"directors", "general meeting"}
      [] s = "the shares may be transferred and should be registered" -> {"sha", "and", "register", "registered", "shares", "transfer"}
      [] s = "objects of the business" -> {"of", "objects", "business"}
      [] s = "full name, date of birth, address and ownership" -> {"address", "and", "of", "name", "full name", "date of birth", "birth", "ownership"}
      [] s = "nationality and passport number" -> {"and", "nationality", "passport"}
      [] s = "the UAE Federal Courts or the Courts of Dubai" -> {"of"}
      [] s = "articles of association" -> {"articles of association", "articles", "association", "of"}
      [] s = "register of members and directors" -> {"register of members", "register of members and directors", "and", "directors", "members", "of", "register"}
      [] s = "limited by guarantee" -> {"limited by guarantee", "guarantee"}
      [] s = "error: could not process query - no quota for request 'licensing filing'" -> {"licensing", "licensing filing", "filing"}
      [] s = "disputes are heard by the dubai courts" -> {"dubai courts"}
      [] s = "adgm courts have exclusive jurisdiction" -> {"adgm", "jurisdiction"}
      [] s = "signed by the directors at the general meeting" -> {"directors", "general meeting"}
      [] s = "the uae federal courts or the courts of dubai" -> {"of", "uae federal courts", "courts of dubai"}
      [] s = "missing explicit adgm courts jurisdiction reference" -> {"jurisdiction"}
      [] s = "document does not clearly reference adgm jurisdiction" -> {"jurisdiction"}
      [] s = "missing required ubo particulars: name" -> {"ubo"}
      [] s = "missing required ubo particulars: birth" -> {"ubo"}
      [] s = "missing required ubo particulars: name, birth" -> {"ubo"}
      [] s = "missing required ubo particulars: nationality" -> {"ubo"}
      [] s = "missing required ubo particulars: name, nationality" -> {"ubo"}
      [] s = "missing required ubo particulars: birth, nationality" -> {"ubo"}
      [] s = "missing required ubo particulars: name, birth, nationality" -> {"ubo"}
      [] s = "missing required ubo particulars: address" -> {"ubo"}
      [] s = "missing required ubo particulars: name, address" -> {"ubo"}
      [] s = "missing required ubo particulars: birth, address" -> {"ubo"}
      [] s = "missing required ubo particulars: name, birth, address" -> {"ubo"}
      [] s = "missing required ubo particulars: nationality, address" -> {"ubo"}
      [] s = "missing required ubo particulars: name, nationality, address" -> {"ubo"}
      [] s = "missing required ubo particulars: birth, nationality, address" -> {"ubo"}
      [] s = "missing required ubo particulars: name, birth, nationality, address" -> {"ubo"}
      [] s = "missing required ubo particulars: passport" -> {"ubo"}
      [] s = "missing required ubo particulars: name, passport" -> {"ubo"}
      [] s = "missing required ubo particulars: birth, passport" -> {"ubo"}
      [] s = "missing required ubo particulars: name, birth, passport" -> {"ubo"}
      [] s = "missing required ubo particulars: nationality, passport" -> {"ubo"}
      [] s = "missing required ubo particulars: name, nationality, passport" -> {"ubo"}
      [] s = "missing required ubo particulars: birth, nationality, passport" -> {"ubo"}
      [] s = "missing required ubo particulars: name, birth, nationality, passport" -> {"ubo"}
      [] s = "missing required ubo particulars: address, passport" -> {"ubo"}
      [] s = "missing required ubo particulars: name, address, passport" -> {"ubo"}
      [] s = "missing required ubo particulars: birth, address, passport" -> {"ubo"}
      [] s = "missing required ubo particulars: name, birth, address, passport" -> {"ubo"}
      [] s = "missing required ubo particulars: nationality, address, passport" -> {"ubo"}
      [] s = "missing required ubo particulars: name, nationality, address, passport" -> {"ubo"}
      [] s = "missing required ubo particulars: birth, nationality, address, passport" -> {"ubo"}
      [] s = "missing required ubo particulars: name, birth, nationality, address, passport" -> {"ubo"}
      [] s = "missing required ubo particulars: ownership" -> {"ubo"}
      [] s = "missing required ubo particulars: name, ownership" -> {"ubo"}
      [] s = "missing required ubo particulars: birth, ownership" -> {"ubo"}
      [] s = "missing required ubo particulars: name, birth, ownership" -> {"ubo"}
      [] s = "missing required ubo particulars: nationality, ownership" -> {"ubo"}
      [] s = "missing required ubo particulars: name, nationality, ownership" -> {"ubo"}
      [] s = "missing required ubo particulars: birth, nationality, ownership" -> {"ubo"}
      [] s = "missing required ubo particulars: name, birth, nationality, ownership" -> {"ubo"}
      [] s = "missing required ubo particulars: address, ownership" -> {"ubo"}
      [] s = "missing required ubo particulars: name, address, ownership" -> {"ubo"}
      [] s = "missing required ubo particulars: birth, address, ownership" -> {"ubo"}
      [] s = "missing required ubo particulars: name, birth, address, ownership" -> {"ubo"}
      [] s = "missing required ubo particulars: nationality, address, ownership" -> {"ubo"}
      [] s = "missing required ubo particulars: name, nationality, address, ownership" -> {"ubo"}
      [] s = "missing required ubo particulars: birth, nationality, address, ownership" -> {"ubo"}
      [] s = "missing required ubo particulars: name, birth, nationality, address, ownership" -> {"ubo"}
      [] s = "missing required ubo particulars: passport, ownership" -> {"ubo"}
      [] s = "missing required ubo particulars: name, passport, ownership" -> {"ubo"}
      [] s = "missing required ubo particulars: birth, passport, ownership" -> {"ubo"}
      [] s = "missing required ubo particulars: name, birth, passport, ownership" -> {"ubo"}
      [] s = "missing required ubo particulars: nationality, passport, ownership" -> {"ubo"}
      [] s = "missing required ubo particulars: name, nationality, passport, ownership" -> {"ubo"}
      [] s = "missing required ubo particulars: birth, nationality, passport, ownership" -> {"ubo"}
      [] s = "missing required ubo particulars: name, birth, nationality, passport, ownership" -> {"ubo"}
      [] s = "missing required ubo particulars: address, passport, ownership" -> {"ubo"}
      [] s = "missing required ubo particulars: name, address, passport, ownership" -> {"ubo"}
      [] s = "missing required ubo particulars: birth, address, passport, ownership" -> {"ubo"}
      [] s = "missing required ubo particulars: name, birth, address, passport, ownership" -> {"ubo"}
      [] s = "missing required ubo particulars: nationality, address, passport, ownership" -> {"ubo"}
      [] s = "missing required ubo particulars: name, nationality, address, passport, ownership" -> {"ubo"}
      [] s = "missing required ubo particulars: birth, nationality, address, passport, ownership" -> {"ubo"}
      [] s = "missing required ubo particulars: name, birth, nationality, address, passport, ownership" -> {"ubo"}
      [] s = "no ubo register" -> {"ubo"}
      [] s = "jurisdiction clause" -> {"jurisdiction"}
      [] OTHER -> {}

SearchIgnoreCase(s) ==
    CASE s = "ARTICLES OF ASSOCIATION" -> {"articles\\s+of\\s+association"}
      [] s = "Register of Members and Directors" -> {"register\\s+of\\s+members"}
      [] s = "Constitutional Document" -> {"constitutional\\s+document"}
      [] s = "Articles of Association" -> {"articles\\s+of\\s+association"}
      [] s = "ADGM Courts have exclusive jurisdiction" -> {"adgm|abu dhabi global market"}
      [] s = "Signed by the directors at the general meeting" -> {"signature|signed|witness|date.*sign|sign.*date"}
      [] s = "articles of association" -> {"articles\\s+of\\s+association"}
      [] s = "register of members and directors" -> {"register\\s+of\\s+members"}
      [] s = "constitutional document" -> {"constitutional\\s+document"}
      [] s = "adgm courts have exclusive jurisdiction" -> {"adgm|abu dhabi global market"}
      [] s = "signed by the directors at the general meeting" -> {"signature|signed|witness|date.*sign|sign.*date"}
      [] OTHER -> {}

Search(s) ==
    CASE s = "adgm courts have exclusive jurisdiction" -> {"adgm\\s+courts?|abu dhabi global market.*courts?"}
      [] OTHER -> {}

FindIterIgnoreCase(pattern, s) ==
    CASE pattern = "\\bmay\\s+(?:be|do|have)" /\ s = "the shares may be transferred and should be registered" -> <<"may be">>
      [] pattern = "\\bshould\\s+(?:be|do|have)" /\ s = "the shares may be transferred and should be registered" -> <<"should be">>
      [] OTHER -> <<>>

SplitDashes(s) ==
    CASE s = "ISSUE: No registered office clause\nSEVERITY: High\nSUGGESTION: Add the clause\n---\n" -> <<"ISSUE: No registered office clause\nSEVERITY: High\nSUGGESTION: Add the clause\n", "\n">>
      [] s = "ISSUE: Vague objects\nSEVERITY: Critical\nSUGGESTION: Clarify\n---\nISSUE: No UBO register\n---\n" -> <<"ISSUE: Vague objects\nSEVERITY: Critical\nSUGGESTION: Clarify\n", "\nISSUE: No UBO register\n", "\n">>
      [] s = "No issues found." -> <<"No issues found.">>
      [] s = "Error: Could not process query - timeout" -> <<"Error: Could not process query - timeout">>
      [] s = "Error: Could not process query - no quota for request 'Licensing Filing'" -> <<"Error: Could not process query - no quota for request 'Licensing Filing'">>
      [] OTHER -> <<s>>

HasIssueTag(s) ==
    CASE s = "ISSUE: No registered office clause\nSEVERITY: High\nSUGGESTION: Add the clause\n" -> TRUE
      [] s = "ISSUE: Vague objects\nSEVERITY: Critical\nSUGGESTION: Clarify\n" -> TRUE
      [] s = "\nISSUE: No UBO register\n" -> TRUE
      [] OTHER -> FALSE

IssueGroup(s) ==
    CASE s = "ISSUE: No registered office clause\nSEVERITY: High\nSUGGESTION: Add the clause\n" -> "No registered office clause"
      [] s = "ISSUE: Vague objects\nSEVERITY: Critical\nSUGGESTION: Clarify\n" -> "Vague objects"
      [] s = "\nISSUE: No UBO register\n" -> "No UBO register"
      [] OTHER -> NoneVal

SeverityGroup(s) ==
    CASE s = "ISSUE: No registered office clause\nSEVERITY: High\nSUGGESTION: Add the clause\n" -> "High"
      [] s = "ISSUE: Vague objects\nSEVERITY: Critical\nSUGGESTION: Clarify\n" -> "Critical"
      [] OTHER -> NoneVal

SuggestionGroup(s) ==
    CASE s = "ISSUE: No registered office clause\nSEVERITY: High\nSUGGESTION: Add the clause\n" -> "Add the clause"
      [] s = "ISSUE: Vague objects\nSEVERITY: Critical\nSUGGESTION: Clarify\n" -> "Clarify"
      [] OTHER -> NoneVal
\* ---- tables: end

\* text.lower()
lower(toks) == [i \in DOMAIN toks |-> Lower(toks[i])]

\* needle in text
In(needle, toks) == \E i \in DOMAIN toks : needle \in SubstringsOf(toks[i])

\* re.search(pattern, text, re.IGNORECASE)
re_search_ignorecase(pattern, toks) ==
    \E i \in DOMAIN toks : pattern \in SearchIgnoreCase(toks[i])

\* text[:500] and text[:2000]
First500(text_) == SubSeq(text_.toks, 1, text_.titleEnd)
First2000(text_) == SubSeq(text_.toks, 1, text_.headEnd)

(***************************************************************************)
(* rapidfuzz's fuzz.partial_ratio(keyword, target).  The library gives 100 *)
(* when the keyword is a substring of the target; for any other keyword    *)
(* the ratio is a fact about the two strings that the model takes from the *)
(* target: target.near names one keyword and the ratio the target has with *)
(* it, every other keyword has ratio 0.                                    *)
(***************************************************************************)
partial_ratio(keyword, target) ==
    IF In(keyword, target.toks) THEN FullRatio
    ELSE IF keyword = target.near.kw THEN target.near.ratio
    ELSE 0

\* _check_title_patterns(doc_type, text_start)
check_title_patterns(doc_type, text_start) ==
    IF /\ doc_type \in DOMAIN patterns
       /\ \E i \in DOMAIN patterns[doc_type] :
             re_search_ignorecase(patterns[doc_type][i], text_start)
    THEN TitleScore
    ELSE 0

\* The content score with the exact match looked for in text_lower[:2000] only
ContentScore_HeadOnly(keyword, text_lower, head) ==
    IF In(keyword, head.toks)
    THEN ExactScore
    ELSE (partial_ratio(keyword, head) * FuzzyPenaltyTenths) \div 10

\* One keyword's content score: the body of `for keyword in keywords` (content).
ContentScore(keyword, text_lower, head) ==
    IF In(keyword, text_lower)
    THEN ExactScore
    ELSE (partial_ratio(keyword, head) * FuzzyPenaltyTenths) \div 10

\* The score of one doc_type: the body of the loop over self.keywords.items().
TypeScore(doc_type, filename_lower, text_lower, head, text_start) ==
    LET kws == keywords[doc_type] IN
    Max({0}
        \cup {partial_ratio(kws[i], filename_lower) : i \in DOMAIN kws}
        \cup {ContentScore(kws[i], text_lower, head) : i \in DOMAIN kws}
        \cup {check_title_patterns(doc_type, text_start)})

\* The comparison of line 130 with >= in its place: the last type of a tie
BetterScore_OrEqual(score, best_score) == score >= best_score

\* if score > best_score: best_score = score; best_type = doc_type
BetterScore(score, best_score) == score > best_score

RECURSIVE BestFrom(_, _, _, _, _, _)
BestFrom(i, best, filename_lower, text_lower, head, text_start) ==
    IF i > Len(doc_types) THEN best
    ELSE LET score == TypeScore(doc_types[i], filename_lower, text_lower, head,
                                 text_start)
         IN BestFrom(i + 1,
                     IF BetterScore(score, best.best_score)
                     THEN [best_type |-> doc_types[i], best_score |-> score]
                     ELSE best,
                     filename_lower, text_lower, head, text_start)

Min2(a, b) == IF a <= b THEN a ELSE b

\* The best type kept whatever the confidence
RuleType_AlwaysBest(best_type, confidence) ==
    IF best_type = NoneVal THEN "Unknown" ELSE best_type

\* 'type': best_type if confidence >= 0.4 else 'Unknown'
RuleType(best_type, confidence) ==
    IF confidence >= UnknownBelow THEN best_type ELSE "Unknown"

\* _classify_by_rules(filename, text, metadata); metadata is not read.
classify_by_rules(filename_, text_) ==
    LET text_lower == lower(text_.toks)
        filename_lower == [toks |-> lower(filename_.toks), near |-> filename_.near]
        head == [toks |-> lower(First2000(text_)), near |-> text_.near]
        best == BestFrom(1, [best_type |-> NoneVal, best_score |-> 0],
                         filename_lower, text_lower, head, lower(First500(text_)))
        confidence == Min2(FullConfidence, best.best_score)
    IN [type |-> RuleType(best.best_type, confidence),
        confidence |-> confidence,
        method |-> "rule_based"]

(***************************************************************************)
(* The services.  self.rag.search returns passages or raises.  The         *)
(* provider behind the Text Generation Service answers with a text, with   *)
(* no content (None), or fails with a message; LLMInterface.query turns a  *)
(* failure into the sentinel string, a generation service of another make  *)
(* may raise it to its caller.                                             *)
(***************************************************************************)
ProviderTexts ==
    {"Articles of Association", "Register of Members and Directors",
     "a resolution passed by the board", "Unknown"}

ProviderErrors == {"timeout", "no quota for request 'Licensing Filing'"}

ProviderOutcomes ==
    {Ok(r) : r \in ProviderTexts \cup {NoneVal}} \cup {Raise(m) : m \in ProviderErrors}

SearchOutcomes == {Ok("passages"), Raise("SearchError")}

Sentinel(e) == "Error: Could not process query - " \o e

\* LLMInterface.query(prompt): try: return self._query_<provider>(...)
\* except Exception as e: return f"Error: Could not process query - {str(e)}"
LLMInterface_query(provider) ==
    IF provider.raised THEN Ok(Sentinel(provider.value)) ELSE provider

\* What self.llm.query can do: LLMInterface.query, or a service that raises.
QueryOutcomes ==
    {LLMInterface_query(p) : p \in ProviderOutcomes}
        \cup {Raise(m) : m \in ProviderErrors}

IsSentinel(response) == \E m \in ProviderErrors : response = Sentinel(m)

\* The first element of doc_types that is in S, None when there is none.
FirstLabel(S) ==
    IF \E i \in DOMAIN doc_types : doc_types[i] \in S
    THEN doc_types[CHOOSE i \in DOMAIN doc_types :
                      /\ doc_types[i] \in S
                      /\ \A j \in 1..(i - 1) : doc_types[j] \notin S]
    ELSE NoneVal

\* _extract_type_from_response handing the answer back as the type.
extract_type_from_response_Verbatim(response) ==
    IF response = NoneVal THEN Raise("AttributeError") ELSE Ok(response)

\* _extract_type_from_response(response); response.lower() raises on None.
extract_type_from_response(response) ==
    IF response = NoneVal THEN Raise("AttributeError")
    ELSE LET response_lower == <<Lower(response)>>
             exact == {doc_type \in Labels : In(Lower(doc_type), response_lower)}
             partial ==
                 {doc_type \in Labels :
                     LET key_words == Split(Lower(doc_type))
                     IN \A w \in DOMAIN key_words : In(key_words[w], response_lower)}
         IN Ok(IF FirstLabel(exact) # NoneVal THEN FirstLabel(exact)
               ELSE IF FirstLabel(partial) # NoneVal THEN FirstLabel(partial)
               ELSE "Unknown")

\* The try block of _classify_by_llm (lines 186-220).
LlmTryBlock(search, query) ==
    IF search.raised THEN search
    ELSE IF query.raised THEN query
    ELSE LET predicted_type == extract_type_from_response(query.value)
         IN IF predicted_type.raised THEN predicted_type
            ELSE Ok([type |-> predicted_type.value,
                     confidence |-> IF predicted_type.value # "Unknown"
                                    THEN LlmMatched ELSE LlmUnmatched,
                     method |-> "llm_assisted"])

\* _classify_by_llm without its except clause.
classify_by_llm_NoExcept(search, query) == LlmTryBlock(search, query)

\* _classify_by_llm whose except clause gives the unmatched confidence.
classify_by_llm_FailedAsUnmatched(search, query) ==
    LET try == LlmTryBlock(search, query)
    IN IF try.raised
       THEN Ok([type |-> "Unknown", confidence |-> LlmUnmatched,
                method |-> "llm_failed"])
       ELSE try

\* _classify_by_llm(filename, text), given what the two services do.
classify_by_llm(search, query) ==
    LET try == LlmTryBlock(search, query)
    IN IF try.raised
       THEN Ok([type |-> "Unknown", confidence |-> LlmFailed, method |-> "llm_failed"])
       ELSE try

\* if llm_result['confidence'] > rule_result['confidence'] (line 94)
MoreConfident_OrEqual(llm, rule) == llm.confidence >= rule.confidence

MoreConfident(llm, rule) == llm.confidence > rule.confidence

\* if rule_result['confidence'] >= 0.7: return rule_result (line 87)
RuleSuffices_Strict(rule) == rule.confidence > RuleThreshold

RuleSuffices(rule) == rule.confidence >= RuleThreshold

(***************************************************************************)
(* classify(filename, text, metadata), in two steps: the rule stage with   *)
(* its early return, then the semantic fallback and the selection.         *)
(***************************************************************************)
ClassifyRules ==
    /\ pc = "classify"
    /\ rule_result' = classify_by_rules(filename, text)
    /\ IF RuleSuffices(rule_result')
       THEN /\ result' = Ok(rule_result')
            /\ pc' = "classified"
       ELSE /\ result' = result
            /\ pc' = "fallback"
    /\ UNCHANGED <<filename, text, llm_result, svvars, ckvars, dtvars, plvars>>

ClassifyFallback ==
    /\ pc = "fallback"
    /\ \E search \in SearchOutcomes, query \in QueryOutcomes :
          LET called == ~search.raised
              llm == classify_by_llm(search, IF called THEN query ELSE NotCalled)
          IN /\ rag_response' = search
             /\ rag_calls' = rag_calls + 1
             /\ llm_response' = IF called THEN query ELSE NotCalled
             /\ llm_calls' = IF called THEN llm_calls + 1 ELSE llm_calls
             /\ llm_result' = llm
             /\ result' = IF llm.raised THEN llm
                          ELSE IF MoreConfident(llm.value, rule_result)
                               THEN llm
                               ELSE Ok(rule_result)
    /\ pc' = "classified"
    /\ UNCHANGED <<filename, text, rule_result, ckvars, dtvars, plvars>>

\* The variables of the operations a specification does not exercise.
IdleClassify ==
    /\ filename = NoneVal
    /\ text = NoneVal
    /\ rule_result = NoClassification
    /\ llm_result = Ok(NoClassification)

IdleServices ==
    /\ rag_response = NotCalled
    /\ llm_response = NotCalled
    /\ rag_calls = 0
    /\ llm_calls = 0

IdleChecklist ==
    /\ documents = <<>>
    /\ process_info = NoneVal
    /\ checklist_result = NoneVal

IdleDetect ==
    /\ document = NoneVal
    /\ issues = <<>>

IdlePipeline ==
    /\ uploaded_files = <<>>
    /\ file_index = 1
    /\ doc_index = 1
    /\ issue_lists = <<>>
    /\ all_issues = <<>>
    /\ report = NoneVal

(***************************************************************************)
(* The inputs of classify                                                  *)
(***************************************************************************)
Phrases ==
    {"ARTICLES OF ASSOCIATION", "Register of Members and Directors",
     "Constitutional Document", "the parties shall agree", "lorem ipsum"}

FilenameRatios == {0, 150, 200, 300, 500, 600, 700, 1000}
BodyRatios == {0, 250, 500, 750}

FileNames ==
    {[toks |-> <<>>, near |-> [kw |-> k, ratio |-> r]] :
        k \in {"aoa", "combined register"}, r \in FilenameRatios}

\* A body: its phrases, where its 500th and 2000th characters fall, and the
\* keyword its first 2000 characters come nearest to without holding it.
Text(toks, titleEnd, headEnd, ratio) ==
    [toks |-> toks, titleEnd |-> titleEnd, headEnd |-> headEnd,
     near |-> [kw |-> "memorandum", ratio |-> ratio]]

InitClassify ==
    /\ pc = "classify"
    /\ filename \in FileNames
    /\ \E n \in 0..MaxBodyLen :
          \E toks \in [1..n -> Phrases], headEnd \in 0..n, ratio \in BodyRatios :
             \E titleEnd \in 0..headEnd :
                text = Text(toks, titleEnd, headEnd, ratio)
    /\ rule_result = NoClassification
    /\ llm_result = Ok(NoClassification)
    /\ rag_response = NotCalled
    /\ llm_response = NotCalled
    /\ rag_calls = 0
    /\ llm_calls = 0
    /\ result = Ok(NoClassification)
    /\ IdleDetect
    /\ IdlePipeline
    /\ IdleChecklist

NextClassify == ClassifyRules \/ ClassifyFallback

SpecClassify == InitClassify /\ [][NextClassify]_vars

(***************************************************************************)
(* Claims about classify                                                   *)
(***************************************************************************)
Classified == pc = "classified"
FallbackRan == Classified /\ rag_calls > 0

\* C1: whatever the services do, the classification classify returns has its
\* confidence in [0,1] and a type among the 14 labels or Unknown.
C1_ClassificationInRange ==
    (Classified /\ ~result.raised) =>
        /\ result.value.confidence \in 0..FullConfidence
        /\ result.value.type \in Labels \cup {"Unknown"}

\* C1 witness: classify returned after a fallback in which a service failed,
\* and in another case nothing matched at all (best_type is None).
C1_Witness ==
    /\ FallbackRan
    /\ rag_response.raised
    /\ ~result.raised
    /\ rule_result.confidence = 0

\* C2: a rule-stage confidence >= 0.7 is returned as it is, rule_based, and
\* neither service has been called.
C2_NoFallbackAtThreshold ==
    (pc \in {"fallback", "classified"} /\ rule_result.confidence >= RuleThreshold) =>
        /\ Classified
        /\ result = Ok(rule_result)
        /\ result.value.method = "rule_based"
        /\ rag_calls = 0
        /\ llm_calls = 0
        /\ rag_response = NotCalled
        /\ llm_response = NotCalled

\* C2 witness: the rule stage gave exactly 0.7 and classify has returned.
C2_Witness == Classified /\ rule_result.confidence = RuleThreshold

\* C3: below 0.7 the fallback result is returned exactly when its confidence
\* is strictly higher than the rule stage's; on a tie the rule result is.
C3_SelectionStrict ==
    (FallbackRan /\ ~llm_result.raised) =>
        /\ rule_result.confidence < RuleThreshold
        /\ IF llm_result.value.confidence > rule_result.confidence
           THEN result = llm_result
           ELSE result = Ok(rule_result)

\* C3 witness: both stages gave 0.6 and the rule-stage result was returned.
C3_Witness ==
    /\ FallbackRan
    /\ rule_result.confidence = LlmMatched
    /\ llm_result.value.confidence = LlmMatched
    /\ result = Ok(rule_result)

\* The retrieval call or the generation call raised an error.
ServiceRaised ==
    /\ FallbackRan
    /\ \/ rag_response.raised
       \/ (llm_calls > 0 /\ llm_response.raised)

\* C5 as stated: when the retrieval or generation call errors, classify
\* returns exactly its rule-stage result, whatever its confidence was.
C5_AlwaysRuleResult == ServiceRaised => result = Ok(rule_result)

\* C5 amended: when the retrieval or generation call raises, classify returns
\* its rule-stage result exactly when the rule-stage confidence is at least
\* 0.2, and below that the fallback result Unknown / 0.2 / llm_failed.
C5_RuleResultFromFifth ==
    ServiceRaised =>
        IF rule_result.confidence >= LlmFailed
        THEN result = Ok(rule_result)
        ELSE result = Ok([type |-> "Unknown", confidence |-> LlmFailed,
                          method |-> "llm_failed"])

\* C5 witness: a service raised while the rule stage stood at exactly 0.2.
C5_Witness ==
    /\ ServiceRaised
    /\ rule_result.confidence = LlmFailed
    /\ result = Ok(rule_result)

\* The generation call failed: it raised, or LLMInterface.query returned the
\* sentinel error string.
GenerationFailed ==
    /\ FallbackRan
    /\ llm_calls > 0
    /\ \/ llm_response.raised
       \/ IsSentinel(llm_response.value)

\* C6: whenever the generation call fails (raised error or sentinel string)
\* the fallback result is Unknown / 0.2 / llm_failed; llm_assisted with 0.6
\* or 0.3 is given only when the call succeeded.
C6_FailureIsLlmFailed ==
    GenerationFailed =>
        llm_result = Ok([type |-> "Unknown", confidence |-> LlmFailed,
                         method |-> "llm_failed"])

(***************************************************************************)
(* core/checklist.py                                                       *)
(***************************************************************************)
Shares == "Private Company Limited by Shares"
Guarantee == "Private Company Limited by Guarantee"

IncorporationList ==
    <<"Articles of Association", "Memorandum of Association",
      "Incorporation Application", "UBO Declaration", "Register of Members",
      "Register of Directors", "Board Resolution">>

\* The table with a Licensing process that asks for the Licensing Filing only
process_requirements_NoBusinessPlan ==
    [p \in {"Company Incorporation", "Licensing", "Employment/HR"} |->
      CASE p = "Company Incorporation" ->
             [e \in {Shares, Guarantee} |-> IncorporationList]
        [] p = "Licensing" -> <<"Licensing Filing">>
        [] p = "Employment/HR" -> <<"Employment Contract">> ]

\* self.process_requirements: a dict per entity type for incorporation, a
\* list for the two other processes.
process_requirements ==
    [p \in {"Company Incorporation", "Licensing", "Employment/HR"} |->
      CASE p = "Company Incorporation" ->
             [e \in {Shares, Guarantee} |-> IncorporationList]
        [] p = "Licensing" -> <<"Licensing Filing", "Business Plan">>
        [] p = "Employment/HR" -> <<"Employment Contract">> ]

\* isinstance(self.process_requirements[process], dict)
IsDict(process) == process = "Company Incorporation"

incorporation_docs ==
    {"Articles of Association", "Memorandum of Association",
     "Incorporation Application", "UBO Declaration", "Register of Members",
     "Register of Directors"}

IncorporationMin == 3
ProcessConfIncorporation == 900
ProcessConfSingle == 800
ProcessConfUnknown == 300
PresentThreshold == 500

Range(seq) == {seq[i] : i \in DOMAIN seq}

RECURSIVE Join(_, _)
\* " ".join([doc.get('text', '') for doc in documents]), from document i on
Join(docs, i) ==
    IF i > Len(docs) THEN <<>> ELSE docs[i].text.toks \o Join(docs, i + 1)

\* _infer_entity_type with the share terms tested before the guarantee terms
infer_entity_type_SharesFirst(docs) ==
    LET all_text == lower(Join(docs, 1))
    IN IF \E term \in {"limited by shares", "share capital", "shares"} :
             In(term, all_text)
       THEN Shares
       ELSE IF \E term \in {"limited by guarantee", "guarantee"} :
                  In(term, all_text)
            THEN Guarantee
            ELSE Shares

\* _infer_entity_type(documents)
infer_entity_type(docs) ==
    LET all_text == lower(Join(docs, 1))
    IN IF \E term \in {"limited by guarantee", "guarantee"} : In(term, all_text)
       THEN Guarantee
       ELSE IF \E term \in {"limited by shares", "share capital", "shares"} :
                  In(term, all_text)
            THEN Shares
            ELSE Shares

\* len(doc_types & incorporation_docs) >= 3, counting the documents instead
IsIncorporation_CountingDocuments(docs) ==
    Cardinality({i \in DOMAIN docs :
                    docs[i].classification.type \in incorporation_docs})
        >= IncorporationMin

\* len(doc_types & incorporation_docs) >= 3
IsIncorporation(docs) ==
    LET types == {docs[i].classification.type : i \in DOMAIN docs}
    IN Cardinality(types \cap incorporation_docs) >= IncorporationMin

\* infer_process reading only the documents classified at 0.5 or more
infer_process_ConfidentOnly(docs) ==
    LET confident == SelectSeq(docs, LAMBDA d : d.classification.confidence >= PresentThreshold)
        types == {confident[i].classification.type : i \in DOMAIN confident}
    IN IF IsIncorporation(confident)
       THEN [process |-> "Company Incorporation",
             entity_type |-> infer_entity_type(docs),
             confidence |-> ProcessConfIncorporation]
       ELSE IF "Licensing Filing" \in types
       THEN [process |-> "Licensing", entity_type |-> NoneVal,
             confidence |-> ProcessConfSingle]
       ELSE IF "Employment Contract" \in types
       THEN [process |-> "Employment/HR", entity_type |-> NoneVal,
             confidence |-> ProcessConfSingle]
       ELSE [process |-> "Unknown", entity_type |-> NoneVal,
             confidence |-> ProcessConfUnknown]

\* infer_process(documents)
infer_process(docs) ==
    LET types == {docs[i].classification.type : i \in DOMAIN docs}
    IN IF IsIncorporation(docs)
       THEN [process |-> "Company Incorporation",
             entity_type |-> infer_entity_type(docs),
             confidence |-> ProcessConfIncorporation]
       ELSE IF "Licensing Filing" \in types
       THEN [process |-> "Licensing", entity_type |-> NoneVal,
             confidence |-> ProcessConfSingle]
       ELSE IF "Employment Contract" \in types
       THEN [process |-> "Employment/HR", entity_type |-> NoneVal,
             confidence |-> ProcessConfSingle]
       ELSE [process |-> "Unknown", entity_type |-> NoneVal,
             confidence |-> ProcessConfUnknown]

\* A score a/b, kept as the fraction the code divides out.
Frac(a, b) == [num |-> a, den |-> b]
SameFrac(x, y) == x.num * y.den = y.num * x.den
LessFrac(x, y) == x.num * y.den < y.num * x.den

\* doc['classification']['confidence'] >= 0.5, with > in its place
CountsAsPresent_Strict(doc) == doc.classification.confidence > PresentThreshold

\* doc['classification']['confidence'] >= 0.5
CountsAsPresent(doc) == doc.classification.confidence >= PresentThreshold

\* The combined register added to present_set only as the members register.
WithRegisters_MembersOnly(present_set, required_set) ==
    IF "Register of Members and Directors" \in present_set
    THEN present_set \cup ({"Register of Members"} \cap required_set)
    ELSE present_set

\* lines 126-131: the combined register satisfies both individual registers
WithRegisters(present_set, required_set) ==
    IF "Register of Members and Directors" \in present_set
    THEN present_set
            \cup ({"Register of Members"} \cap required_set)
            \cup ({"Register of Directors"} \cap required_set)
    ELSE present_set

\* lines 133-135 with the Board Resolution alone in the test
WithResolutions_BoardOnly(present_set) ==
    IF "Board Resolution" \in present_set
    THEN present_set \cup {"Board Resolution"}
    ELSE present_set

\* lines 133-135: either resolution satisfies the Board Resolution requirement
WithResolutions(present_set) ==
    IF \E res \in {"Board Resolution", "Shareholder Resolution"} : res \in present_set
    THEN present_set \cup {"Board Resolution"}
    ELSE present_set

\* line 141
Completeness(required_docs, required_set, present_set, missing_docs) ==
    IF required_docs # <<>>
    THEN Frac(Cardinality(required_set) - Cardinality(missing_docs),
              Cardinality(required_set))
    ELSE Frac(1, 1)

\* validate_checklist with present_documents not cut down to the required set
validate_checklist_AllPresent(docs, info) ==
    LET process == info.process
        entity_type == info.entity_type
    IN IF process \notin DOMAIN process_requirements
       THEN [status |-> "unknown_process",
             missing_documents |-> {},
             present_documents |-> {},
             completeness_score |-> Frac(0, 1)]
       ELSE
         LET required_docs ==
                 IF IsDict(process)
                 THEN IF entity_type \in DOMAIN process_requirements[process]
                      THEN process_requirements[process][entity_type]
                      ELSE <<>>
                 ELSE process_requirements[process]
             present_docs ==
                 {docs[i].classification.type :
                     i \in {j \in DOMAIN docs : CountsAsPresent(docs[j])}}
             required_set == Range(required_docs)
             present_set ==
                 WithResolutions(WithRegisters(present_docs, required_set))
             missing_docs == required_set \ present_set
         IN [status |-> IF missing_docs = {} THEN "complete" ELSE "incomplete",
             required_documents |-> required_docs,
             present_documents |-> present_set,
             missing_documents |-> missing_docs,
             completeness_score |->
                 Completeness(required_docs, required_set, present_set, missing_docs),
             total_required |-> Len(required_docs),
             total_present |-> Cardinality(present_set \cap required_set)]

\* validate_checklist(documents, process_info); the lists made from sets
\* (present_documents, missing_documents) are kept as sets.
validate_checklist(docs, info) ==
    LET process == info.process
        entity_type == info.entity_type
    IN IF process \notin DOMAIN process_requirements
       THEN [status |-> "unknown_process",
             missing_documents |-> {},
             present_documents |-> {},
             completeness_score |-> Frac(0, 1)]
       ELSE
         LET required_docs ==
                 IF IsDict(process)
                 THEN IF entity_type \in DOMAIN process_requirements[process]
                      THEN process_requirements[process][entity_type]
                      ELSE <<>>
                 ELSE process_requirements[process]
             present_docs ==
                 {docs[i].classification.type :
                     i \in {j \in DOMAIN docs : CountsAsPresent(docs[j])}}
             required_set == Range(required_docs)
             present_set ==
                 WithResolutions(WithRegisters(present_docs, required_set))
             missing_docs == required_set \ present_set
         IN [status |-> IF missing_docs = {} THEN "complete" ELSE "incomplete",
             required_documents |-> required_docs,
             present_documents |-> present_set \cap required_set,
             missing_documents |-> missing_docs,
             completeness_score |->
                 Completeness(required_docs, required_set, present_set, missing_docs),
             total_required |-> Len(required_docs),
             total_present |-> Cardinality(present_set \cap required_set)]

(***************************************************************************)
(* app.py lines 142-143: infer_process, then validate_checklist, on the    *)
(* classified documents of the run.                                        *)
(***************************************************************************)
InferProcess ==
    /\ pc = "collect"
    /\ documents # <<>>
    /\ process_info' = infer_process(documents)
    /\ pc' = "validate"
    /\ UNCHANGED <<clvars, svvars, result, documents, checklist_result, dtvars,
                   plvars>>

ValidateChecklist ==
    /\ pc = "validate"
    /\ checklist_result' = validate_checklist(documents, process_info)
    /\ pc' = "validated"
    /\ UNCHANGED <<clvars, svvars, result, documents, process_info, dtvars, plvars>>

(***************************************************************************)
(* The document sets.  A classification is one the classifier can return:  *)
(* a label with a confidence of at least 0.4, or Unknown.  The validator   *)
(* reads the documents through sets of types and through substring tests   *)
(* on the joined bodies only, so the documents are appended in one order   *)
(* per multiset (that of the pool), and the first document carries the     *)
(* body that decides the entity type.                                      *)
(***************************************************************************)
PlainText(toks) ==
    [toks |-> toks, titleEnd |-> 0, headEnd |-> 0,
     near |-> [kw |-> NoneVal, ratio |-> 0]]

ClassificationPool ==
    << [type |-> "Unknown", confidence |-> LlmUnmatched, method |-> "llm_assisted"] >>
    \o [i \in 1..Len(doc_types) |->
          [type |-> doc_types[i], confidence |-> 450, method |-> "rule_based"]]
    \o [i \in 1..Len(doc_types) |->
          [type |-> doc_types[i], confidence |-> PresentThreshold,
           method |-> "rule_based"]]

EntityBodies ==
    {<<>>, <<"Limited by Guarantee">>, <<"share capital">>,
     <<"share capital", "Limited by Guarantee">>}

\* The place in the pool of the classification of the last document.
LastIndex ==
    IF documents = <<>> THEN 1
    ELSE CHOOSE k \in DOMAIN ClassificationPool :
            /\ ClassificationPool[k] = documents[Len(documents)].classification
            /\ \A j \in 1..(k - 1) :
                  ClassificationPool[j] # documents[Len(documents)].classification

\* app.py lines 122-128: processed_docs.append({...}) for one more document.
AppendDocument ==
    /\ pc = "collect"
    /\ Len(documents) < MaxDocs
    /\ \E k \in LastIndex..Len(ClassificationPool),
          body \in IF documents = <<>> THEN EntityBodies ELSE {<<>>} :
          documents' = Append(documents,
                              [name |-> Len(documents) + 1,
                               text |-> PlainText(body),
                               classification |-> ClassificationPool[k]])
    /\ UNCHANGED <<pc, clvars, svvars, result, process_info, checklist_result,
                   dtvars, plvars>>

InitChecklist ==
    /\ pc = "collect"
    /\ IdleChecklist
    /\ IdleDetect
    /\ IdlePipeline
    /\ IdleClassify
    /\ IdleServices
    /\ result = Ok(NoClassification)

NextChecklist == AppendDocument \/ InferProcess \/ ValidateChecklist

SpecChecklist == InitChecklist /\ [][NextChecklist]_vars

(***************************************************************************)
(* Claims about the checklist, under SpecChecklist.                        *)
(***************************************************************************)
Inferred == pc \in {"validate", "validated"}
Validated == pc = "validated"

TypesOf(docs) == {docs[i].classification.type : i \in DOMAIN docs}

\* The process and confidence the cascade of the claim gives a document set.
Cascade(docs) ==
    IF \E S \in SUBSET (TypesOf(docs) \cap incorporation_docs) : Cardinality(S) = 3
    THEN <<"Company Incorporation", 900>>
    ELSE IF "Licensing Filing" \in TypesOf(docs) THEN <<"Licensing", 800>>
    ELSE IF "Employment Contract" \in TypesOf(docs) THEN <<"Employment/HR", 800>>
    ELSE <<"Unknown", 300>>

\* C7: infer_process is a fixed-priority cascade over the set of distinct
\* document types: Company Incorporation (0.9) exactly when at least three
\* distinct incorporation indicators are present, whatever else is present
\* and however many duplicates there are; otherwise Licensing (0.8) with a
\* Licensing Filing; otherwise Employment/HR (0.8) with an Employment
\* Contract; otherwise Unknown (0.3).
C7_ProcessCascade ==
    Inferred =>
        <<process_info.process, process_info.confidence>> = Cascade(documents)

\* Three distinct indicators together with a Licensing Filing: incorporation.
C7_Witness ==
    /\ Inferred
    /\ Cardinality(TypesOf(documents) \cap incorporation_docs) = 3
    /\ "Licensing Filing" \in TypesOf(documents)
    /\ process_info.process = "Company Incorporation"

\* The required list of a result; the result for an unknown process has none.
RequiredOf(r) ==
    IF r.status = "unknown_process" THEN <<>> ELSE r.required_documents

\* C8: for every result of validate_checklist, the result for an unknown
\* process included, completeness_score is (|required| - |missing|) /
\* |required| when the required list is non-empty and 1.0 when it is empty.
C8_CompletenessFormula ==
    Validated =>
        LET r == checklist_result
            required == RequiredOf(r)
        IN IF required # <<>>
           THEN SameFrac(r.completeness_score,
                         Frac(Len(required) - Cardinality(r.missing_documents),
                              Len(required)))
           ELSE SameFrac(r.completeness_score, Frac(1, 1))

\* The documents of type t, and those of them classified at 0.5 or more.
DocsOfType(t) == {i \in DOMAIN documents : documents[i].classification.type = t}
ConfidentOfType(t) ==
    {i \in DocsOfType(t) : documents[i].classification.confidence >= 500}

\* C9 as stated: only documents classified at 0.5 or more count as present;
\* a required type whose only documents are classified below 0.5 is reported
\* missing, and a required type classified at exactly 0.5 is present.
C9_BelowHalfIsMissing ==
    (Validated /\ checklist_result.status # "unknown_process") =>
        \A t \in Range(checklist_result.required_documents) :
            /\ (DocsOfType(t) # {} /\ ConfidentOfType(t) = {})
                  => t \in checklist_result.missing_documents
            /\ ConfidentOfType(t) # {}
                  => t \in checklist_result.present_documents

\* The types whose documents satisfy the requirement for type t.
Satisfying(t) ==
    {t} \cup (IF t \in {"Register of Members", "Register of Directors"}
              THEN {"Register of Members and Directors"} ELSE {})
        \cup (IF t = "Board Resolution" THEN {"Shareholder Resolution"} ELSE {})

\* C9, amended: a required type is present exactly when a document classified
\* at 0.5 or more has that type or a type that satisfies it by equivalence
\* (the combined register for either register, a Shareholder Resolution for
\* the Board Resolution), and is missing otherwise.
C9_PresentFromHalf ==
    (Validated /\ checklist_result.status # "unknown_process") =>
        \A t \in Range(checklist_result.required_documents) :
            LET satisfied == \E u \in Satisfying(t) : ConfidentOfType(u) # {}
            IN /\ t \in checklist_result.present_documents <=> satisfied
               /\ t \in checklist_result.missing_documents <=> ~satisfied

\* One required type classified at exactly 0.5 and present, another whose
\* only document is below 0.5 and missing.
C9_Witness ==
    /\ Validated
    /\ checklist_result.status # "unknown_process"
    /\ \E t \in checklist_result.present_documents :
          /\ ConfidentOfType(t) # {}
          /\ \A i \in ConfidentOfType(t) :
                documents[i].classification.confidence = 500
    /\ \E t \in checklist_result.missing_documents :
          DocsOfType(t) # {} /\ ConfidentOfType(t) = {}

\* A combined register at 0.5 or more and no separate register document.
OnlyCombinedRegister ==
    /\ ConfidentOfType("Register of Members and Directors") # {}
    /\ DocsOfType("Register of Members") = {}
    /\ DocsOfType("Register of Directors") = {}

\* C10: in an incorporation checklist, a document set with a combined
\* "Register of Members and Directors" (confidence >= 0.5) and no separate
\* register has both registers in present_documents and neither in
\* missing_documents.
C10_CombinedRegister ==
    (Validated /\ process_info.process = "Company Incorporation"
               /\ OnlyCombinedRegister) =>
        /\ {"Register of Members", "Register of Directors"}
              \subseteq checklist_result.present_documents
        /\ {"Register of Members", "Register of Directors"}
              \cap checklist_result.missing_documents = {}

C10_Witness ==
    /\ Validated
    /\ process_info.process = "Company Incorporation"
    /\ OnlyCombinedRegister
    /\ "Register of Directors" \in checklist_result.present_documents

\* A Shareholder Resolution at 0.5 or more and no Board Resolution document.
OnlyShareholderResolution ==
    /\ ConfidentOfType("Shareholder Resolution") # {}
    /\ DocsOfType("Board Resolution") = {}

\* C11: in an incorporation checklist, a document set with a Shareholder
\* Resolution (confidence >= 0.5) and no Board Resolution satisfies the Board
\* Resolution requirement: "Board Resolution" is in present_documents and
\* not in missing_documents.
C11_ShareholderResolution ==
    (Validated /\ process_info.process = "Company Incorporation"
               /\ OnlyShareholderResolution) =>
        /\ "Board Resolution" \in checklist_result.present_documents
        /\ "Board Resolution" \notin checklist_result.missing_documents

C11_Witness ==
    /\ Validated
    /\ process_info.process = "Company Incorporation"
    /\ OnlyShareholderResolution
    /\ "Board Resolution" \in checklist_result.present_documents
    /\ "Shareholder Resolution" \notin checklist_result.present_documents

(***************************************************************************)
(* core/redflags.py: the red-flag detector.  The body of a document is a   *)
(* sequence of paragraphs; a regular expression never matches across two   *)
(* paragraphs ('.' stops at the line end).  An issue keeps its document,   *)
(* section_hint, issue and severity; its citations, suggestion and         *)
(* location are left out.                                                  *)
(***************************************************************************)
Issue(doc_type, section_hint, issue, severity) ==
    [document |-> doc_type, section_hint |-> section_hint,
     issue |-> issue, severity |-> severity]

\* document['classification'] raises KeyError when the key is absent; a
\* document without the key carries NoClassification.
HasClassification(doc) == doc.classification # NoClassification

\* A document whose 'text' is None carries NoText: None.lower() raises
\* AttributeError, re.search(pattern, None) and None[:3000] raise TypeError.
NoText ==
    [toks |-> <<>>, titleEnd |-> 0, headEnd |-> 0,
     near |-> [kw |-> "<no text>", ratio |-> 0]]

HasText(doc) == doc.text # NoText

\* re.search(pattern, text) on a lowered text
re_search(pattern, toks) == \E i \in DOMAIN toks : pattern \in Search(toks[i])

RECURSIVE finditer_ignorecase(_, _, _)
\* [m.group() for m in re.finditer(pattern, text, re.IGNORECASE)], from
\* paragraph i on
finditer_ignorecase(pattern, toks, i) ==
    IF i > Len(toks) THEN <<>>
    ELSE FindIterIgnoreCase(pattern, toks[i])
            \o finditer_ignorecase(pattern, toks, i + 1)

RECURSIVE JoinComma(_, _)
\* ", ".join(seq), from element i on
JoinComma(seq, i) ==
    IF i > Len(seq) THEN ""
    ELSE IF i = Len(seq) THEN seq[i]
    ELSE seq[i] \o ", " \o JoinComma(seq, i + 1)

bad_courts ==
    <<"uae federal courts", "dubai courts", "abu dhabi courts",
      "federal courts of uae", "courts of dubai">>

\* _check_jurisdiction asking every type for the ADGM Courts clause
check_jurisdiction_AllTypes(doc) ==
    IF ~HasText(doc) THEN Raise("AttributeError")
    ELSE IF ~HasClassification(doc) THEN Raise("KeyError")
    ELSE
      LET text_ == lower(doc.text.toks)
          doc_type == doc.classification.type
          found == SelectSeq(bad_courts, LAMBDA court : In(court, text_))
          courts ==
              [i \in DOMAIN found |->
                  Issue(doc_type, "Jurisdiction clause",
                        "References " \o found[i] \o " instead of ADGM Courts",
                        "High")]
      IN Ok(courts \o
            (IF ~re_search("adgm\\s+courts?|abu dhabi global market.*courts?",
                           text_)
             THEN << Issue(doc_type, "Jurisdiction clause",
                           "Missing explicit ADGM Courts jurisdiction reference",
                           "High") >>
             ELSE <<>>))

\* _check_jurisdiction(document, process_info)
check_jurisdiction(doc) ==
    IF ~HasText(doc) THEN Raise("AttributeError")
    ELSE IF ~HasClassification(doc) THEN Raise("KeyError")
    ELSE
      LET text_ == lower(doc.text.toks)
          doc_type == doc.classification.type
          found == SelectSeq(bad_courts, LAMBDA court : In(court, text_))
          courts ==
              [i \in DOMAIN found |->
                  Issue(doc_type, "Jurisdiction clause",
                        "References " \o found[i] \o " instead of ADGM Courts",
                        "High")]
          key_docs == {"Articles of Association", "Memorandum of Association",
                       "Commercial Agreement"}
      IN Ok(courts \o
            (IF /\ doc_type \in key_docs
                /\ ~re_search("adgm\\s+courts?|abu dhabi global market.*courts?",
                              text_)
             THEN << Issue(doc_type, "Jurisdiction clause",
                           "Missing explicit ADGM Courts jurisdiction reference",
                           "High") >>
             ELSE <<>>))

\* _check_registered_office(document, process_info)
check_registered_office(doc) ==
    IF ~HasClassification(doc) THEN Raise("KeyError")
    ELSE IF /\ doc.classification.type
                 \in {"Articles of Association", "Incorporation Application"}
            /\ ~HasText(doc)
    THEN Raise("TypeError")
    ELSE
      LET doc_type == doc.classification.type
      IN Ok(IF /\ doc_type \in {"Articles of Association", "Incorporation Application"}
               /\ ~re_search_ignorecase("adgm|abu dhabi global market", doc.text.toks)
            THEN << Issue(doc_type, "Registered office",
                          "Registered office address must be within ADGM",
                          "High") >>
            ELSE <<>>)

\* required_sections, in the order of the dict; spaced is the name with
\* "_" replaced by " ", titled is spaced.title().
required_sections ==
    << [spaced |-> "objects", titled |-> "Objects",
        keywords |-> {"objects", "purpose", "business"}],
       [spaced |-> "share capital", titled |-> "Share Capital",
        keywords |-> {"share capital", "capital", "shares"}],
       [spaced |-> "directors", titled |-> "Directors",
        keywords |-> {"directors", "board"}],
       [spaced |-> "meetings", titled |-> "Meetings",
        keywords |-> {"meetings", "general meeting"}],
       [spaced |-> "transfers", titled |-> "Transfers",
        keywords |-> {"transfer", "transmission"}] >>

\* _check_articles_sections(document, process_info)
check_articles_sections(doc) ==
    IF ~HasClassification(doc) THEN Raise("KeyError")
    ELSE IF doc.classification.type # "Articles of Association" THEN Ok(<<>>)
    ELSE IF ~HasText(doc) THEN Raise("AttributeError")
    ELSE
      LET text_ == lower(doc.text.toks)
          absent == SelectSeq(required_sections,
                              LAMBDA sec : ~\E keyword \in sec.keywords :
                                              In(keyword, text_))
      IN Ok([i \in DOMAIN absent |->
               Issue("Articles of Association",
                     absent[i].titled \o " provisions",
                     "Missing or unclear " \o absent[i].spaced \o " provisions",
                     "Medium")])

\* signature_required of _check_signatory_blocks
signature_required ==
    {"Articles of Association", "Memorandum of Association",
     "Board Resolution", "Shareholder Resolution",
     "Commercial Agreement", "Employment Contract"}

\* _check_signatory_blocks(document, process_info)
check_signatory_blocks(doc) ==
    IF ~HasClassification(doc) THEN Raise("KeyError")
    ELSE IF doc.classification.type \in signature_required /\ ~HasText(doc)
    THEN Raise("TypeError")
    ELSE
      LET doc_type == doc.classification.type
          has_signature_block ==
              re_search_ignorecase("signature|signed|witness|date.*sign|sign.*date",
                                   doc.text.toks)
      IN Ok(IF doc_type \in signature_required /\ ~has_signature_block
            THEN << Issue(doc_type, "Execution block",
                          "Missing signature block or execution provisions",
                          "Medium") >>
            ELSE <<>>)

\* required_fields, in the order of the dict
required_fields ==
    << [field |-> "name", keywords |-> {"name", "full name"}],
       [field |-> "birth", keywords |-> {"date of birth", "birth", "born"}],
       [field |-> "nationality", keywords |-> {"nationality", "citizen"}],
       [field |-> "address", keywords |-> {"address", "residential"}],
       [field |-> "passport", keywords |-> {"passport", "identity", "id number"}],
       [field |-> "ownership",
        keywords |-> {"ownership", "beneficial", "control", "shares"}] >>

\* _check_ubo_particulars writing one issue for every missing field
check_ubo_particulars_PerField(doc) ==
    IF ~HasClassification(doc) THEN Raise("KeyError")
    ELSE IF doc.classification.type # "UBO Declaration" THEN Ok(<<>>)
    ELSE IF ~HasText(doc) THEN Raise("AttributeError")
    ELSE
      LET text_ == lower(doc.text.toks)
          absent == SelectSeq(required_fields,
                              LAMBDA f : ~\E keyword \in f.keywords :
                                            In(keyword, text_))
      IN Ok([i \in DOMAIN absent |->
                Issue("UBO Declaration", "Required particulars",
                      "Missing required UBO particulars: " \o absent[i].field,
                      "High")])

\* _check_ubo_particulars(document, process_info)
check_ubo_particulars(doc) ==
    IF ~HasClassification(doc) THEN Raise("KeyError")
    ELSE IF doc.classification.type # "UBO Declaration" THEN Ok(<<>>)
    ELSE IF ~HasText(doc) THEN Raise("AttributeError")
    ELSE
      LET text_ == lower(doc.text.toks)
          absent == SelectSeq(required_fields,
                              LAMBDA f : ~\E keyword \in f.keywords :
                                            In(keyword, text_))
          missing_fields == [i \in DOMAIN absent |-> absent[i].field]
      IN Ok(IF missing_fields # <<>>
            THEN << Issue("UBO Declaration", "Required particulars",
                          "Missing required UBO particulars: "
                              \o JoinComma(missing_fields, 1),
                          "High") >>
            ELSE <<>>)

weak_patterns ==
    <<"\\bmay\\s+(?:be|do|have)", "\\bshould\\s+(?:be|do|have)",
      "\\bmight\\s+(?:be|do|have)", "\\bcould\\s+(?:be|do|have)">>

RECURSIVE WeakMatches(_, _)
\* The matches of the weak patterns from pattern i on, pattern by pattern.
WeakMatches(toks, i) ==
    IF i > Len(weak_patterns) THEN <<>>
    ELSE finditer_ignorecase(weak_patterns[i], toks, 1) \o WeakMatches(toks, i + 1)

\* binding_docs of _check_binding_language
binding_docs ==
    {"Articles of Association", "Memorandum of Association",
     "Commercial Agreement", "Employment Contract"}

\* _check_binding_language(document, process_info)
check_binding_language(doc) ==
    IF ~HasClassification(doc) THEN Raise("KeyError")
    ELSE IF doc.classification.type \in binding_docs /\ ~HasText(doc)
    THEN Raise("TypeError")
    ELSE
      LET doc_type == doc.classification.type
          matches == WeakMatches(doc.text.toks, 1)
      IN Ok(IF doc_type \in binding_docs
            THEN [i \in DOMAIN matches |->
                    Issue(doc_type, "Language clarity",
                          "Potentially non-binding language: \"" \o matches[i] \o "\"",
                          "Low")]
            ELSE <<>>)

\* _check_adgm_references(document, process_info)
check_adgm_references(doc) ==
    IF ~HasText(doc) THEN Raise("AttributeError")
    ELSE IF ~HasClassification(doc) THEN Raise("KeyError")
    ELSE
      LET text_ == lower(doc.text.toks)
          doc_type == doc.classification.type
          key_docs == {"Articles of Association", "Memorandum of Association",
                       "Incorporation Application"}
      IN Ok(IF /\ doc_type \in key_docs
               /\ ~In("adgm", text_)
               /\ ~In("abu dhabi global market", text_)
            THEN << Issue(doc_type, "ADGM references",
                          "Document does not clearly reference ADGM jurisdiction",
                          "Medium") >>
            ELSE <<>>)

\* self.rules, by name
rules ==
    <<"_check_jurisdiction", "_check_registered_office",
      "_check_articles_sections", "_check_signatory_blocks",
      "_check_ubo_particulars", "_check_binding_language",
      "_check_adgm_references">>

\* rule(document, process_info) for the rule of that name
rule(name, doc) ==
    CASE name = "_check_jurisdiction" -> check_jurisdiction(doc)
      [] name = "_check_registered_office" -> check_registered_office(doc)
      [] name = "_check_articles_sections" -> check_articles_sections(doc)
      [] name = "_check_signatory_blocks" -> check_signatory_blocks(doc)
      [] name = "_check_ubo_particulars" -> check_ubo_particulars(doc)
      [] name = "_check_binding_language" -> check_binding_language(doc)
      [] name = "_check_adgm_references" -> check_adgm_references(doc)

RECURSIVE RunRules(_, _)
\* The loop of detect_issues (lines 29-35) from rule i on: the issues of a
\* rule are appended, a rule that raises is logged and adds nothing.
RunRules(doc, i) ==
    IF i > Len(rules) THEN <<>>
    ELSE LET rule_issues == rule(rules[i], doc)
         IN (IF rule_issues.raised THEN <<>> ELSE rule_issues.value)
                \o RunRules(doc, i + 1)

critical_types ==
    {"Articles of Association", "Memorandum of Association",
     "UBO Declaration", "Commercial Agreement"}

\* _is_critical_document answering True for every classified document
is_critical_document_Always(doc) ==
    IF ~HasClassification(doc) THEN Raise("KeyError") ELSE Ok(TRUE)

\* _is_critical_document(document)
is_critical_document(doc) ==
    IF ~HasClassification(doc) THEN Raise("KeyError")
    ELSE Ok(doc.classification.type \in critical_types)

RECURSIVE ParseSections(_, _, _)
\* The loop of _parse_llm_issues over the sections, from section i on.
ParseSections(sections, doc_type, i) ==
    IF i > Len(sections) THEN <<>>
    ELSE LET section == sections[i]
             issue_match == IssueGroup(section)
             severity_match == SeverityGroup(section)
         IN (IF HasIssueTag(section) /\ issue_match # NoneVal
             THEN << Issue(doc_type, "LLM Analysis", issue_match,
                           IF severity_match # NoneVal
                           THEN severity_match ELSE "Medium") >>
             ELSE <<>>)
                \o ParseSections(sections, doc_type, i + 1)

\* _parse_llm_issues(response, doc_type); response.split raises on None.
parse_llm_issues(response, doc_type) ==
    IF response = NoneVal THEN Raise("AttributeError")
    ELSE Ok(ParseSections(SplitDashes(response), doc_type, 1))

\* The try block of _llm_semantic_check (lines 277-304).
SemanticTryBlock(doc, search, query) ==
    IF search.raised THEN search
    ELSE IF ~HasText(doc) THEN Raise("TypeError")
    ELSE IF query.raised THEN query
    ELSE parse_llm_issues(query.value, doc.classification.type)

\* _llm_semantic_check without its except clause.
llm_semantic_check_NoExcept(doc, search, query) ==
    SemanticTryBlock(doc, search, query)

\* _llm_semantic_check(document, process_info), given what the services do.
llm_semantic_check(doc, search, query) ==
    LET try == SemanticTryBlock(doc, search, query)
    IN IF try.raised THEN Ok(<<>>) ELSE try

\* The answers of the provider to the prompt of the semantic check.
SemanticTexts ==
    {"ISSUE: No registered office clause\nSEVERITY: High\nSUGGESTION: Add the clause\n---\n",
     "ISSUE: Vague objects\nSEVERITY: Critical\nSUGGESTION: Clarify\n---\nISSUE: No UBO register\n---\n",
     "No issues found."}

SemanticOutcomes ==
    {LLMInterface_query(p) :
        p \in {Ok(r) : r \in SemanticTexts \cup {NoneVal}}
                 \cup {Raise(m) : m \in ProviderErrors}}
        \cup {Raise(m) : m \in ProviderErrors}

(***************************************************************************)
(* detect_issues(document, process_info), in two steps: the rule checks    *)
(* and the test for a critical document, then the semantic check.  No rule *)
(* reads process_info.                                                     *)
(***************************************************************************)
DetectRules ==
    /\ pc = "detect"
    /\ issues' = RunRules(document, 1)
    /\ LET critical == is_critical_document(document)
       IN IF critical.raised
          THEN result' = critical /\ pc' = "detected"
          ELSE IF critical.value
               THEN result' = result /\ pc' = "semantic"
               ELSE result' = Ok(issues') /\ pc' = "detected"
    /\ UNCHANGED <<clvars, svvars, ckvars, document, plvars>>

DetectSemantic ==
    /\ pc = "semantic"
    /\ \E search \in SearchOutcomes, query \in SemanticOutcomes :
          LET called == ~search.raised /\ HasText(document)
              llm_issues ==
                  llm_semantic_check(document, search,
                                     IF called THEN query ELSE NotCalled)
          IN /\ rag_response' = search
             /\ rag_calls' = rag_calls + 1
             /\ llm_response' = IF called THEN query ELSE NotCalled
             /\ llm_calls' = IF called THEN llm_calls + 1 ELSE llm_calls
             /\ IF llm_issues.raised
                THEN result' = llm_issues /\ issues' = issues
                ELSE /\ issues' = issues \o llm_issues.value
                     /\ result' = Ok(issues')
    /\ pc' = "detected"
    /\ UNCHANGED <<clvars, ckvars, document, plvars>>

(***************************************************************************)
(* The inputs of detect_issues                                             *)
(***************************************************************************)
DetectPhrases ==
    {"Disputes are heard by the Dubai Courts",
     "ADGM Courts have exclusive jurisdiction",
     "Signed by the directors at the general meeting",
     "the shares may be transferred and should be registered",
     "objects of the business",
     "full name, date of birth, address and ownership",
     "nationality and passport number",
     "the UAE Federal Courts or the Courts of Dubai"}

\* What a document can carry as its classification: a classification of
\* the pool, or none.
DetectClassifications ==
    {ClassificationPool[k] : k \in DOMAIN ClassificationPool} \cup {NoClassification}

\* What process_documents can pass as process_info: the results of
\* infer_process.
ProcessInfos ==
    {[process |-> "Company Incorporation", entity_type |-> e,
      confidence |-> ProcessConfIncorporation] : e \in {Shares, Guarantee}}
    \cup {[process |-> p, entity_type |-> NoneVal, confidence |-> ProcessConfSingle] :
              p \in {"Licensing", "Employment/HR"}}
    \cup {[process |-> "Unknown", entity_type |-> NoneVal,
            confidence |-> ProcessConfUnknown]}

InitDetect ==
    /\ pc = "detect"
    /\ process_info \in ProcessInfos
    /\ documents = <<>>
    /\ checklist_result = NoneVal
    /\ \E n \in 0..MaxBodyLen :
          \E toks \in [1..n -> DetectPhrases], c \in DetectClassifications :
             \/ document = [text |-> PlainText(toks), classification |-> c]
             \/ n = 0 /\ document = [text |-> NoText, classification |-> c]
    /\ issues = <<>>
    /\ result = Ok(NoClassification)
    /\ IdleClassify
    /\ IdleServices
    /\ IdlePipeline

NextDetect == DetectRules \/ DetectSemantic

SpecDetect == InitDetect /\ [][NextDetect]_vars

(***************************************************************************)
(* The two operations that call the services, together.                    *)
(***************************************************************************)
InitBoundary == InitClassify \/ InitDetect

NextBoundary == ClassifyRules \/ ClassifyFallback \/ DetectRules \/ DetectSemantic

SpecBoundary == InitBoundary /\ [][NextBoundary]_vars

\* A service call of the operation raised, or the wrapper of the generation
\* service answered with its sentinel string.
ServiceFailed ==
    \/ rag_response.raised
    \/ llm_response.raised
    \/ (llm_calls > 0 /\ llm_response.value # NoneVal /\ IsSentinel(llm_response.value))

Returned == pc \in {"classified", "detected"}

\* C4: no error of the Knowledge Retrieval Service or of the Text Generation
\* Service surfaces to the caller of classify or of detect_issues: whenever a
\* call of a service failed, the operation returns a normal result.
C4_NoServiceErrorSurfaces ==
    (Returned /\ ServiceFailed) => ~result.raised

\* detect_issues returns its rule issues although the generation service
\* raised.
C4_Witness ==
    /\ pc = "detected"
    /\ llm_response.raised
    /\ ~result.raised
    /\ result.value = issues
    /\ issues # <<>>

(***************************************************************************)
(* Claims about detect_issues, under SpecDetect.                           *)
(***************************************************************************)
Detected == pc = "detected"

\* Some rule check raised on the document.
RuleRaised(doc) == \E i \in DOMAIN rules : rule(rules[i], doc).raised

\* C12: if one of the seven rule checks raises (malformed input included),
\* the error is caught, every other rule still contributes its issues to the
\* returned list, and detect_issues itself does not raise.
C12_RulesIsolated ==
    (Detected /\ RuleRaised(document)) =>
        /\ ~result.raised
        /\ \A i \in DOMAIN rules :
              LET rule_issues == rule(rules[i], document)
              IN ~rule_issues.raised =>
                    \A k \in DOMAIN rule_issues.value :
                       \E j \in DOMAIN result.value :
                          result.value[j] = rule_issues.value[k]

Severities == {"High", "Medium", "Low"}

\* C14: every issue detect_issues returns has its severity in {High, Medium,
\* Low}; an issue parsed from a block of the generation service whose
\* SEVERITY line is absent or names another value gets Medium.
C14_SeverityClosed ==
    (Detected /\ ~result.raised) =>
        \A j \in DOMAIN result.value : result.value[j].severity \in Severities

(***************************************************************************)
(* The report generator (core/report.py).  overall_compliance_score is     *)
(* kept in tenths of a point (82.9 is 829) and the report's                *)
(* completeness_score in hundredths (0.71 is 71).                          *)
(***************************************************************************)
CompletenessWeight == 60
IssueWeight == 40
HighPenalty == 10
MediumPenalty == 5
LowPenalty == 2
FullScore == 100

\* round(n / d): the nearest integer, the even one of the two when n / d
\* lies halfway.
RoundDiv(n, d) ==
    LET q == n \div d
        r == n % d
    IN IF 2 * r < d THEN q
       ELSE IF 2 * r > d THEN q + 1
       ELSE IF q % 2 = 0 THEN q ELSE q + 1

\* line 19 and lines 20-22: the three counts, and a key more for every other
\* severity an issue carries.
issue_counts(issues_) ==
    [s \in Severities \cup {issues_[j].severity : j \in DOMAIN issues_} |->
        Cardinality({j \in DOMAIN issues_ : issues_[j].severity = s})]

\* sum(issue_counts.values())
SumValues(counts) ==
    LET Sum[S \in SUBSET DOMAIN counts] ==
            IF S = {} THEN 0
            ELSE LET k == CHOOSE x \in S : TRUE
                 IN counts[k] + Sum[S \ {k}]
    IN Sum[DOMAIN counts]

\* min(100, max(0, total_score)) of a fraction
Clamp(total) ==
    IF total.num > FullScore * total.den THEN Frac(FullScore, 1)
    ELSE IF total.num < 0 THEN Frac(0, 1)
    ELSE total

\* _calculate_compliance_score without the max(0, ...) of line 163: the issue
\* score falls below zero.
calculate_compliance_score_NoFloor(checklist, counts) ==
    LET completeness == checklist.completeness_score
        penalty == counts["High"] * HighPenalty
                   + counts["Medium"] * MediumPenalty
                   + counts["Low"] * LowPenalty
        issue_score == IF SumValues(counts) = 0 THEN IssueWeight
                       ELSE IssueWeight - penalty
        total == Frac(completeness.num * CompletenessWeight
                      + issue_score * completeness.den, completeness.den)
    IN RoundDiv(Clamp(total).num * 10, Clamp(total).den)

\* _calculate_compliance_score(checklist_result, issue_counts), in tenths
calculate_compliance_score(checklist, counts) ==
    LET completeness == checklist.completeness_score
        completeness_score == Frac(completeness.num * CompletenessWeight,
                                   completeness.den)
        total_issues == SumValues(counts)
        penalty == counts["High"] * HighPenalty
                   + counts["Medium"] * MediumPenalty
                   + counts["Low"] * LowPenalty
        issue_score == IF total_issues = 0 THEN IssueWeight
                       ELSE Max({0, IssueWeight - penalty})
        total_score == Frac(completeness_score.num
                            + issue_score * completeness_score.den,
                            completeness_score.den)
    IN RoundDiv(Clamp(total_score).num * 10, Clamp(total_score).den)

\* severity_order.get(x['severity'], 1)
severity_order(severity) ==
    CASE severity = "High" -> 0
      [] severity = "Medium" -> 1
      [] severity = "Low" -> 2
      [] OTHER -> 1

\* One step of a sort that is not stable: x goes before the issues of its own
\* key.
InsertSorted_BeforeEqual(x, sorted) ==
    LET before == SelectSeq(sorted, LAMBDA y :
                     severity_order(y.severity) < severity_order(x.severity))
        after == SelectSeq(sorted, LAMBDA y :
                     severity_order(y.severity) >= severity_order(x.severity))
    IN before \o <<x>> \o after

\* list.sort is stable: an issue goes behind the issues of its own key that
\* came before it.
InsertSorted(x, sorted) ==
    LET before == SelectSeq(sorted, LAMBDA y :
                     severity_order(y.severity) <= severity_order(x.severity))
        after == SelectSeq(sorted, LAMBDA y :
                     severity_order(y.severity) > severity_order(x.severity))
    IN before \o <<x>> \o after

RECURSIVE SortBySeverity(_, _)
SortBySeverity(formatted, n) ==
    IF n = 0 THEN <<>>
    ELSE InsertSorted(formatted[n], SortBySeverity(formatted, n - 1))

\* _format_issues without the sort of line 91
format_issues_Unsorted(issues_) ==
    [j \in DOMAIN issues_ |->
        [document |-> issues_[j].document,
         section |-> issues_[j].section_hint,
         issue |-> issues_[j].issue,
         severity |-> issues_[j].severity]]

\* _format_issues(issues): the fields copied (lines 78-86), then the sort
format_issues(issues_) ==
    LET formatted_issues ==
            [j \in DOMAIN issues_ |->
                [document |-> issues_[j].document,
                 section |-> issues_[j].section_hint,
                 issue |-> issues_[j].issue,
                 severity |-> issues_[j].severity]]
    IN SortBySeverity(formatted_issues, Len(formatted_issues))

\* One recommendation: its text, and the documents the text lists (joined in
\* the order of a list made from a set, which the code does not fix).
Recommendation(message, docs) == [message |-> message, docs |-> docs]

\* `needle in s` with the .lower() left out
InLower_CaseSensitive(needle, s) == needle \in SubstringsOf(s)

\* `needle in s.lower()` for an issue text or a section hint
InLower(needle, s) == needle \in SubstringsOf(Lower(s))

GenericRecommendations(issues_) ==
    IF issues_ # <<>>
    THEN <<Recommendation("Address identified issues to improve compliance", {})>>
    ELSE <<Recommendation("Documents appear compliant - ready for submission", {})>>

\* _generate_recommendations with the jurisdiction test before the test for
\* High issues
generate_recommendations_JurisdictionFirst(info, checklist, issues_) ==
    LET missing_docs == checklist.missing_documents
        high_issues == SelectSeq(issues_, LAMBDA x : x.severity = "High")
        jurisdiction_issues ==
            SelectSeq(issues_, LAMBDA x : InLower("jurisdiction", x.section_hint))
        ubo_issues == SelectSeq(issues_, LAMBDA x : InLower("ubo", x.issue))
        recommendations ==
            (IF missing_docs # {}
             THEN <<Recommendation("Complete document set by preparing: ",
                                   missing_docs)>>
             ELSE <<>>)
            \o (IF jurisdiction_issues # <<>>
                THEN <<Recommendation("Review and update jurisdiction clauses to reference ADGM Courts exclusively", {})>>
                ELSE <<>>)
            \o (IF high_issues # <<>>
                THEN <<Recommendation(
                         "Address " \o ToString(Len(high_issues))
                         \o " high-priority compliance issues before submission",
                         {})>>
                ELSE <<>>)
            \o (IF ubo_issues # <<>>
                THEN <<Recommendation("Complete UBO declaration with all required particulars per ADGM regulations", {})>>
                ELSE <<>>)
            \o (IF /\ info.process = "Company Incorporation"
                   /\ LessFrac(checklist.completeness_score, Frac(1, 1))
                THEN <<Recommendation("Ensure all incorporation documents are prepared before ADGM submission", {})>>
                ELSE <<>>)
    IN IF recommendations = <<>>
       THEN GenericRecommendations(issues_)
       ELSE recommendations

\* _generate_recommendations(process_info, checklist_result, issues)
generate_recommendations(info, checklist, issues_) ==
    LET missing_docs == checklist.missing_documents
        high_issues == SelectSeq(issues_, LAMBDA x : x.severity = "High")
        jurisdiction_issues ==
            SelectSeq(issues_, LAMBDA x : InLower("jurisdiction", x.section_hint))
        ubo_issues == SelectSeq(issues_, LAMBDA x : InLower("ubo", x.issue))
        recommendations ==
            (IF missing_docs # {}
             THEN <<Recommendation("Complete document set by preparing: ",
                                   missing_docs)>>
             ELSE <<>>)
            \o (IF high_issues # <<>>
                THEN <<Recommendation(
                         "Address " \o ToString(Len(high_issues))
                         \o " high-priority compliance issues before submission",
                         {})>>
                ELSE <<>>)
            \o (IF jurisdiction_issues # <<>>
                THEN <<Recommendation("Review and update jurisdiction clauses to reference ADGM Courts exclusively", {})>>
                ELSE <<>>)
            \o (IF ubo_issues # <<>>
                THEN <<Recommendation("Complete UBO declaration with all required particulars per ADGM regulations", {})>>
                ELSE <<>>)
            \o (IF /\ info.process = "Company Incorporation"
                   /\ LessFrac(checklist.completeness_score, Frac(1, 1))
                THEN <<Recommendation("Ensure all incorporation documents are prepared before ADGM submission", {})>>
                ELSE <<>>)
    IN IF recommendations = <<>>
       THEN GenericRecommendations(issues_)
       ELSE recommendations

\* generate_report(process_info, documents, checklist_result, issues), without
\* the timestamp.  The confidences of the summary have two decimals at most,
\* so that round(confidence, 2) leaves them as they are.
generate_report(info, docs, checklist, issues_) ==
    [process_detected |-> info.process,
     entity_type |-> info.entity_type,
     process_confidence |-> info.confidence,
     documents_uploaded |-> Len(docs),
     document_summary |->
         [j \in DOMAIN docs |->
             [filename |-> docs[j].name,
              detected_type |-> docs[j].classification.type,
              confidence |-> RoundDiv(docs[j].classification.confidence, 10),
              classification_method |-> docs[j].classification.method]],
     checklist_status |-> checklist.status,
     required_documents |->
         IF "required_documents" \in DOMAIN checklist
         THEN checklist.required_documents ELSE <<>>,
     present_documents |-> checklist.present_documents,
     missing_documents |-> checklist.missing_documents,
     completeness_score |->
         RoundDiv(checklist.completeness_score.num * 100,
                  checklist.completeness_score.den),
     total_issues |-> Len(issues_),
     issues_by_severity |-> issue_counts(issues_),
     issues_found |-> format_issues(issues_),
     recommendations |-> generate_recommendations(info, checklist, issues_),
     overall_compliance_score |->
         calculate_compliance_score(checklist, issue_counts(issues_))]

(***************************************************************************)
(* process_documents (app.py), from line 139 on: the process and the       *)
(* checklist of the classified documents (InferProcess, ValidateChecklist),*)
(* then detect_issues on every document in turn, then the report.          *)
(* add_comments (lines 152-165) returns a path and never raises            *)
(* (docx_utils.py lines 86-125); the report does not read what it returns. *)
(***************************************************************************)
\* lines 146-148: the loop takes the next document and calls detect_issues
NextDocument ==
    /\ pc = "validated"
    /\ doc_index <= Len(documents)
    /\ document' = documents[doc_index]
    /\ issues' = <<>>
    /\ pc' = "detect"
    /\ UNCHANGED <<clvars, svvars, result, ckvars, plvars>>

\* lines 148-149: detect_issues has returned and all_issues.extend(issues);
\* an exception of detect_issues leaves process_documents.
CollectIssues ==
    /\ pc = "detected"
    /\ IF result.raised
       THEN /\ pc' = "failed"
            /\ UNCHANGED <<svvars, dtvars, plvars>>
       ELSE /\ issue_lists' = Append(issue_lists, result.value)
            /\ all_issues' = all_issues \o result.value
            /\ doc_index' = doc_index + 1
            /\ pc' = "validated"
            /\ rag_response' = NotCalled
            /\ llm_response' = NotCalled
            /\ rag_calls' = 0
            /\ llm_calls' = 0
            /\ document' = NoneVal
            /\ issues' = <<>>
            /\ UNCHANGED <<uploaded_files, file_index, report>>
    /\ UNCHANGED <<clvars, result, ckvars>>

\* lines 169-174: generate_report on the documents and issues of the run
GenerateReport ==
    /\ pc = "validated"
    /\ doc_index > Len(documents)
    /\ report' = generate_report(process_info, documents, checklist_result,
                                 all_issues)
    /\ pc' = "reported"
    /\ UNCHANGED <<clvars, svvars, result, ckvars, dtvars, uploaded_files,
                   file_index, doc_index, issue_lists, all_issues>>

(***************************************************************************)
(* The inputs of the report: the classified documents of a run are any     *)
(* documents of these types, in this order, all with the same body.        *)
(***************************************************************************)
ReportTypes ==
    <<"Articles of Association", "Memorandum of Association",
      "Incorporation Application", "UBO Declaration",
      "Register of Members and Directors", "Shareholder Resolution",
      "Licensing Filing", "Employment Contract">>

ReportBodies ==
    {<<>>,
     <<"Signed by the directors at the general meeting">>,
     <<"Disputes are heard by the Dubai Courts",
       "the shares may be transferred and should be registered">>}

RECURSIVE DocumentsOf(_, _, _)
DocumentsOf(chosen, body, i) ==
    IF i > Len(ReportTypes) THEN <<>>
    ELSE (IF i \in chosen
          THEN <<[name |-> i, text |-> PlainText(body),
                  classification |->
                      [type |-> ReportTypes[i], confidence |-> PresentThreshold,
                       method |-> "rule_based"]]>>
          ELSE <<>>)
         \o DocumentsOf(chosen, body, i + 1)

InitReport ==
    /\ pc = "collect"
    /\ \E chosen \in SUBSET DOMAIN ReportTypes, body \in ReportBodies :
          /\ chosen # {}
          /\ documents = DocumentsOf(chosen, body, 1)
    /\ process_info = NoneVal
    /\ checklist_result = NoneVal
    /\ result = Ok(NoClassification)
    /\ IdleClassify
    /\ IdleServices
    /\ IdleDetect
    /\ IdlePipeline

NextReport ==
    \/ InferProcess
    \/ ValidateChecklist
    \/ NextDocument
    \/ DetectRules
    \/ DetectSemantic
    \/ CollectIssues
    \/ GenerateReport

SpecReport == InitReport /\ [][NextReport]_vars

Reported == pc = "reported"

(***************************************************************************)
(* Claims about generate_report, under SpecReport                          *)
(***************************************************************************)
\* The number of issues of the run with a severity
SeverityCount(severity) ==
    Cardinality({j \in DOMAIN all_issues : all_issues[j].severity = severity})

\* clamp(completeness_score*60 + max(0, 40 - (10*High + 5*Medium + 2*Low)),
\* 0, 100) as a fraction, in points
ClampedScore ==
    LET c == checklist_result.completeness_score
        penalty == 10 * SeverityCount("High") + 5 * SeverityCount("Medium")
                   + 2 * SeverityCount("Low")
        issue_part == IF penalty < 40 THEN 40 - penalty ELSE 0
        raw == Frac(60 * c.num + issue_part * c.den, c.den)
    IN IF LessFrac(raw, Frac(0, 1)) THEN Frac(0, 1)
       ELSE IF LessFrac(Frac(100, 1), raw) THEN Frac(100, 1)
       ELSE raw

\* overall_compliance_score is in tenths of a point
ScoreInRange ==
    /\ report.overall_compliance_score >= 0
    /\ report.overall_compliance_score <= 1000

ScoreBoundaries ==
    /\ (all_issues = <<>> /\ SameFrac(checklist_result.completeness_score, Frac(1, 1)))
          => report.overall_compliance_score = 1000
    /\ (/\ Len(all_issues) = 3
        /\ SeverityCount("High") = 3
        /\ SameFrac(checklist_result.completeness_score, Frac(0, 1)))
          => report.overall_compliance_score = 100

\* C15 as stated: overall_compliance_score equals clamp(completeness_score*60
\* + max(0, 40 - (10*High + 5*Medium + 2*Low)), 0, 100); it is within
\* [0, 100]; no issue at completeness 1.0 gives 100.0 and three High issues at
\* completeness 0 give 10.0.
C15_ScoreIsClamp ==
    Reported =>
        /\ SameFrac(Frac(report.overall_compliance_score, 10), ClampedScore)
        /\ ScoreInRange
        /\ ScoreBoundaries

\* The distance of the score from the clamped value, as a fraction of a point
ScoreDistance ==
    LET d == report.overall_compliance_score * ClampedScore.den
             - 10 * ClampedScore.num
    IN Frac(IF d < 0 THEN -d ELSE d, 10 * ClampedScore.den)

\* C15, amended: overall_compliance_score is that clamped value rounded to one
\* decimal place (it has one decimal and lies within half a tenth of the
\* value); it is within [0, 100]; no issue at completeness 1.0 gives 100.0 and
\* three High issues at completeness 0 give 10.0.
C15_ScoreIsRoundedClamp ==
    Reported =>
        /\ ~LessFrac(Frac(1, 20), ScoreDistance)
        /\ ScoreInRange
        /\ ScoreBoundaries

\* A report whose score is the clamped value rounded: five of seven documents
\* and no issue give 82.857..., reported as 82.9; and a run of three High
\* issues at completeness 0.
C15_Witness ==
    /\ Reported
    /\ ~SameFrac(Frac(report.overall_compliance_score, 10), ClampedScore)
    /\ ~LessFrac(Frac(1, 20), ScoreDistance)

\* The issues of the run as the report writes them (lines 78-86), in the order
\* of the accumulator
FormattedInput ==
    [j \in DOMAIN all_issues |->
        [document |-> all_issues[j].document,
         section |-> all_issues[j].section_hint,
         issue |-> all_issues[j].issue,
         severity |-> all_issues[j].severity]]

\* The issues of one severity, in the order of the sequence
OfSeverity(seq, severity) == SelectSeq(seq, LAMBDA x : x.severity = severity)

\* How often x occurs in the sequence
Occurrences(seq, x) == Cardinality({j \in DOMAIN seq : seq[j] = x})

\* C16: issues_found is a permutation of the input issue list, as long as
\* total_issues; every High issue precedes every Medium issue and every
\* Medium issue every Low issue; two issues of the same severity keep the
\* relative order they had in the input.
C16_SortedStablePermutation ==
    Reported =>
        LET found == report.issues_found
        IN /\ Len(found) = Len(all_issues)
           /\ report.total_issues = Len(all_issues)
           /\ \A j \in DOMAIN FormattedInput :
                 Occurrences(found, FormattedInput[j])
                     = Occurrences(FormattedInput, FormattedInput[j])
           /\ \A j, k \in DOMAIN found :
                 j < k =>
                    /\ ~(found[j].severity = "Medium" /\ found[k].severity = "High")
                    /\ ~(found[j].severity = "Low" /\ found[k].severity = "High")
                    /\ ~(found[j].severity = "Low" /\ found[k].severity = "Medium")
           /\ \A j \in DOMAIN found :
                 OfSeverity(found, found[j].severity)
                     = OfSeverity(FormattedInput, found[j].severity)

\* A report of issues of the three severities that were not in the order of
\* the severities, two of them of one severity.
C16_Witness ==
    /\ Reported
    /\ report.issues_found # FormattedInput
    /\ \A s \in Severities : OfSeverity(report.issues_found, s) # <<>>
    /\ \E s \in Severities :
          \E j, k \in DOMAIN FormattedInput :
             /\ j < k
             /\ FormattedInput[j].severity = s
             /\ FormattedInput[k].severity = s
             /\ FormattedInput[j] # FormattedInput[k]

\* all_issues after the lists were appended in the order of the sequence
RECURSIVE Concatenated(_, _)
Concatenated(lists, n) ==
    IF n = 0 THEN <<>> ELSE Concatenated(lists, n - 1) \o lists[n]

\* Other orders in which the n lists of a run can be appended: the run's own
\* with two lists exchanged, and its rotations.
Orders(n) ==
    {[j \in 1..n |-> IF j = a THEN b ELSE IF j = b THEN a ELSE j] :
        a \in 1..n, b \in 1..n}
    \cup {[j \in 1..n |-> ((j + r - 1) % n) + 1] : r \in 1..n}

\* issues_found of the report of the run whose lists were appended in the
\* order f
FoundInOrder(f) ==
    format_issues(Concatenated([j \in DOMAIN issue_lists |-> issue_lists[f[j]]],
                               Len(issue_lists)))

\* The tiers of the sort: High, Low, and between them Medium together with
\* every severity outside the three.
TierOf(severity) ==
    IF severity \in {"High", "Low"} THEN severity ELSE "Medium"

\* The issues of a tier, in the order of the sequence
Tier(seq, tier) == SelectSeq(seq, LAMBDA x : TierOf(x.severity) = tier)

\* C17 as stated: whatever the order in which the per-document issue lists
\* are appended to the accumulator, generate_report gives the identical
\* issues_found sequence.
C17_OrderIndependent ==
    Reported =>
        \A f \in Orders(Len(issue_lists)) : FoundInOrder(f) = report.issues_found

\* C17, amended: whatever the order in which the lists are appended,
\* issues_found has the same tier at every position (High, then Medium
\* together with any severity outside the three, then Low) and holds the same
\* issues as often; within a tier the issues keep the order of the
\* accumulator, so that two orders give the identical sequence exactly when
\* they list the issues of every tier in the same order.
C17_OrderWithinTiersOnly ==
    Reported =>
        \A f \in Orders(Len(issue_lists)) :
           LET found == report.issues_found
               other == FoundInOrder(f)
               accumulated ==
                   Concatenated([j \in DOMAIN issue_lists |-> issue_lists[f[j]]],
                                Len(issue_lists))
           IN /\ Len(other) = Len(found)
              /\ \A j \in DOMAIN found :
                    /\ TierOf(other[j].severity) = TierOf(found[j].severity)
                    /\ Occurrences(other, found[j]) = Occurrences(found, found[j])
              /\ (other = found) <=>
                    \A tier \in Severities :
                       Tier(accumulated, tier) = Tier(all_issues, tier)

\* A report of two documents that both have High issues: appended the other
\* way round, the High issues come out in the other order.
C17_Witness ==
    /\ Reported
    /\ Len(issue_lists) = 2
    /\ OfSeverity(issue_lists[1], "High") # <<>>
    /\ OfSeverity(issue_lists[2], "High") # <<>>
    /\ FoundInOrder(<<2, 1>>) # report.issues_found
    /\ \A j \in DOMAIN report.issues_found :
          FoundInOrder(<<2, 1>>)[j].severity = report.issues_found[j].severity

\* The five triggers of the recommendations, in the order of the code
Triggers ==
    <<checklist_result.missing_documents # {},
      OfSeverity(all_issues, "High") # <<>>,
      \E j \in DOMAIN all_issues :
         "jurisdiction" \in SubstringsOf(Lower(all_issues[j].section_hint)),
      \E j \in DOMAIN all_issues :
         "ubo" \in SubstringsOf(Lower(all_issues[j].issue)),
      /\ process_info.process = "Company Incorporation"
      /\ LessFrac(checklist_result.completeness_score, Frac(1, 1))>>

\* Their messages
TriggerMessages ==
    <<[message |-> "Complete document set by preparing: ",
       docs |-> checklist_result.missing_documents],
      [message |-> "Address " \o ToString(Len(OfSeverity(all_issues, "High")))
                   \o " high-priority compliance issues before submission",
       docs |-> {}],
      [message |-> "Review and update jurisdiction clauses to reference ADGM Courts exclusively",
       docs |-> {}],
      [message |-> "Complete UBO declaration with all required particulars per ADGM regulations",
       docs |-> {}],
      [message |-> "Ensure all incorporation documents are prepared before ADGM submission",
       docs |-> {}]>>

GenericMessages ==
    {"Address identified issues to improve compliance",
     "Documents appear compliant - ready for submission"}

\* C18: the recommendations are the messages of the triggers that hold, in
\* the order of the triggers; when none holds, the one generic message that
\* goes with the presence or absence of issues; the list is never empty and a
\* generic message stands alone.
C18_RecommendationsInOrder ==
    Reported =>
        LET recs == report.recommendations
            held == SelectSeq([i \in 1..5 |-> i], LAMBDA i : Triggers[i])
        IN /\ held # <<>> => recs = [j \in DOMAIN held |-> TriggerMessages[held[j]]]
           /\ held = <<>> =>
                 recs = <<[message |->
                              IF all_issues # <<>>
                              THEN "Address identified issues to improve compliance"
                              ELSE "Documents appear compliant - ready for submission",
                           docs |-> {}]>>
           /\ recs # <<>>
           /\ \A j \in DOMAIN recs :
                 recs[j].message \in GenericMessages => Len(recs) = 1

\* A report in which the second, third and fourth triggers hold and the
\* others do not: the three messages, in that order.
C18_Witness ==
    /\ Reported
    /\ Triggers = <<FALSE, TRUE, TRUE, TRUE, FALSE>>
    /\ Len(report.recommendations) = 3
    /\ report.recommendations[2].message
          = "Review and update jurisdiction clauses to reference ADGM Courts exclusively"

(***************************************************************************)
(* process_documents (app.py lines 87-181), the whole run: the first loop  *)
(* extracts and classifies every file and skips the file whose step        *)
(* raises; the run stops there when it kept no document (line 135).        *)
(***************************************************************************)
\* A file python-docx, mammoth and docx2python all fail on
Unreadable ==
    [toks |-> <<>>, titleEnd |-> 0, headEnd |-> 0,
     near |-> [kw |-> "<unreadable>", ratio |-> 0]]

\* extract_text(file_path) of core/docx_utils.py: the text of the file, or
\* ValueError when the three extraction methods fail (line 76)
extract_text(file) ==
    IF file.content = Unreadable THEN Raise("ValueError") ELSE Ok(file.content)

\* The first loop with a `break` in the place of the `continue` of line 131.
NextFile_StopAtError ==
    /\ pc = "upload"
    /\ file_index <= Len(uploaded_files)
    /\ LET extracted == extract_text(uploaded_files[file_index])
       IN IF extracted.raised
          THEN /\ file_index' = Len(uploaded_files) + 1
               /\ UNCHANGED <<pc, filename, text>>
          ELSE /\ filename' = uploaded_files[file_index].name
               /\ text' = extracted.value
               /\ pc' = "classify"
               /\ UNCHANGED file_index
    /\ UNCHANGED <<rule_result, llm_result, svvars, result, ckvars, dtvars,
                   uploaded_files, doc_index, issue_lists, all_issues, report>>

\* lines 114-119 and 129-131: the loop takes the next file and extracts its
\* text; when extract_text raises, the file is skipped (except, continue).
NextFile ==
    /\ pc = "upload"
    /\ file_index <= Len(uploaded_files)
    /\ LET extracted == extract_text(uploaded_files[file_index])
       IN IF extracted.raised
          THEN /\ file_index' = file_index + 1
               /\ UNCHANGED <<pc, filename, text>>
          ELSE /\ filename' = uploaded_files[file_index].name
               /\ text' = extracted.value
               /\ pc' = "classify"
               /\ UNCHANGED file_index
    /\ UNCHANGED <<rule_result, llm_result, svvars, result, ckvars, dtvars,
                   uploaded_files, doc_index, issue_lists, all_issues, report>>

\* lines 122-131: classify has returned and the document is appended to
\* processed_docs; had classify raised, the file would be skipped.
AppendProcessed ==
    /\ pc = "classified"
    /\ file_index <= Len(uploaded_files)
    /\ documents' =
          IF result.raised THEN documents
          ELSE Append(documents, [name |-> file_index, text |-> text,
                                  classification |-> result.value])
    /\ file_index' = file_index + 1
    /\ pc' = "upload"
    /\ filename' = NoneVal
    /\ text' = NoneVal
    /\ rule_result' = NoClassification
    /\ llm_result' = Ok(NoClassification)
    /\ rag_response' = NotCalled
    /\ llm_response' = NotCalled
    /\ rag_calls' = 0
    /\ llm_calls' = 0
    /\ UNCHANGED <<result, process_info, checklist_result, dtvars, uploaded_files,
                   doc_index, issue_lists, all_issues, report>>

\* lines 135-137: after the loop, `if not processed_docs: ... return`
EndOfFiles ==
    /\ pc = "upload"
    /\ file_index > Len(uploaded_files)
    /\ pc' = IF documents = <<>> THEN "no_documents" ELSE "collect"
    /\ UNCHANGED <<clvars, svvars, result, ckvars, dtvars, plvars>>

(***************************************************************************)
(* The files of a run: one to MaxFiles files (the button of line 84 is     *)
(* disabled without a file), each one of these.                            *)
(***************************************************************************)
UploadPool ==
    {[name |-> [toks |-> <<>>, near |-> [kw |-> "aoa", ratio |-> 0]],
      content |-> Unreadable],
     [name |-> [toks |-> <<>>, near |-> [kw |-> "aoa", ratio |-> FullRatio]],
      content |-> Text(<<"Disputes are heard by the Dubai Courts">>, 0, 1, 0)],
     [name |-> [toks |-> <<>>, near |-> [kw |-> "combined register", ratio |-> 300]],
      content |-> Text(<<"lorem ipsum">>, 1, 1, 250)],
     [name |-> [toks |-> <<>>, near |-> [kw |-> "aoa", ratio |-> 0]],
      content |-> Text(<<"Register of Members and Directors">>, 1, 1, 0)]}

InitPipeline ==
    /\ pc = "upload"
    /\ \E n \in 1..MaxFiles : uploaded_files \in [1..n -> UploadPool]
    /\ file_index = 1
    /\ doc_index = 1
    /\ issue_lists = <<>>
    /\ all_issues = <<>>
    /\ report = NoneVal
    /\ result = Ok(NoClassification)
    /\ IdleClassify
    /\ IdleServices
    /\ IdleChecklist
    /\ IdleDetect

NextPipeline ==
    \/ NextFile
    \/ ClassifyRules
    \/ ClassifyFallback
    \/ AppendProcessed
    \/ EndOfFiles
    \/ InferProcess
    \/ ValidateChecklist
    \/ NextDocument
    \/ DetectRules
    \/ DetectSemantic
    \/ CollectIssues
    \/ GenerateReport

SpecPipeline == InitPipeline /\ [][NextPipeline]_vars

(***************************************************************************)
(* Claims about process_documents, under SpecPipeline                      *)
(***************************************************************************)
\* The places of the files whose text could be extracted, in upload order
Readable ==
    SelectSeq([j \in DOMAIN uploaded_files |-> j],
              LAMBDA j : uploaded_files[j].content # Unreadable)

\* The first loop has handled every file
FilesDone == file_index > Len(uploaded_files)

\* The second loop is under way
Detecting == {"validated", "detect", "semantic", "detected"}

\* C19: a file whose extraction or classification fails is skipped and the
\* others are processed (the documents kept are the files that could be
\* read, in upload order); the run stops without a report only when it kept
\* no document, and at every other place short of the report it has a step
\* to take; the process and the checklist are those of the documents kept
\* and are computed only after the first loop has handled every file;
\* detection goes through the documents kept one by one, and the report
\* counts and names them and counts the issues of their lists.
C19_SkipAndContinue ==
    /\ FilesDone =>
          [j \in DOMAIN documents |-> documents[j].name] = Readable
    /\ pc = "no_documents" => Readable = <<>>
    /\ pc \in {"upload", "classify", "fallback", "classified", "no_documents",
               "collect", "validate", "reported"} \cup Detecting
    /\ pc \in {"upload", "classify", "fallback", "classified", "no_documents"} =>
          /\ process_info = NoneVal
          /\ checklist_result = NoneVal
          /\ issue_lists = <<>>
    /\ pc \in {"classify", "fallback", "classified"} => ~FilesDone
    /\ pc \in {"collect", "validate"} \cup Detecting \cup {"reported"} =>
          /\ FilesDone
          /\ documents # <<>>
    /\ pc \in {"validate"} \cup Detecting \cup {"reported"} =>
          process_info = infer_process(documents)
    /\ pc \in Detecting \cup {"reported"} =>
          /\ checklist_result = validate_checklist(documents, process_info)
          /\ Len(issue_lists) = doc_index - 1
          /\ doc_index <= Len(documents) + 1
    /\ pc \in {"detect", "semantic", "detected"} =>
          document = documents[doc_index]
    /\ Reported =>
          /\ Len(issue_lists) = Len(documents)
          /\ report.documents_uploaded = Len(Readable)
          /\ [j \in DOMAIN report.document_summary |->
                 report.document_summary[j].filename] = Readable
          /\ report.total_issues = Len(Concatenated(issue_lists, Len(issue_lists)))

\* A run of three files of which the second cannot be read: the report covers
\* the first and the third.
C19_Witness ==
    /\ Reported
    /\ Len(uploaded_files) = 3
    /\ Readable = <<1, 3>>
    /\ report.documents_uploaded = 2
    /\ Len(issue_lists) = 2

(***************************************************************************)
(* A claim about the rule stage of classify, under SpecClassify            *)
(***************************************************************************)
\* The match score of the i-th type of the keyword table for the arguments
\* of the call, in tenths of a point
ScoreOfType(i) ==
    TypeScore(doc_types[i],
              [toks |-> lower(filename.toks), near |-> filename.near],
              lower(text.toks),
              [toks |-> lower(First2000(text)), near |-> text.near],
              lower(First500(text)))

\* The best of them
BestScore == Max({ScoreOfType(i) : i \in DOMAIN doc_types})

\* C20: the rule stage returns confidence min(1, best_score/100), best_score
\* being the greatest match score of a type; its type is Unknown exactly
\* when the confidence is below 0.4, and otherwise the first type of the
\* keyword table that has the greatest score.
C20_RuleStageBest ==
    pc \in {"fallback", "classified"} =>
        /\ rule_result.confidence = IF BestScore > 1000 THEN 1000 ELSE BestScore
        /\ rule_result.type = "Unknown" <=> rule_result.confidence < 400
        /\ rule_result.confidence >= 400 =>
              \E i \in DOMAIN doc_types :
                 /\ rule_result.type = doc_types[i]
                 /\ ScoreOfType(i) = BestScore
                 /\ \A j \in 1..(i - 1) : ScoreOfType(j) < BestScore

\* A call in which two types have the greatest score and the rule stage
\* returns the first of them.
C20_Witness ==
    /\ pc \in {"fallback", "classified"}
    /\ rule_result.confidence >= 400
    /\ \E i, j \in DOMAIN doc_types :
          /\ i < j
          /\ ScoreOfType(i) = BestScore
          /\ ScoreOfType(j) = BestScore
          /\ rule_result.type = doc_types[i]

\* The types a keyword of which occurs in the lower-cased phrases toks
TypesNamedIn(toks) ==
    {t \in Labels : \E i \in DOMAIN keywords[t] : In(keywords[t][i], lower(toks))}

\* The rule stage has returned
RuleStageDone == pc \in {"fallback", "classified"}

\* The greatest score the call can have without an exact match: file name,
\* fuzzy content match on the first 2000 characters, title patterns
ScoreWithoutExact ==
    Max({0, filename.near.ratio, (text.near.ratio * FuzzyPenaltyTenths) \div 10}
        \cup {check_title_patterns(t, lower(First500(text))) : t \in Labels})

\* C21 as stated: the exact-match score 95 is earned only by a keyword that
\* occurs in the first 2000 characters of the body; a keyword that occurs
\* only later contributes the fuzzy ratio of the first 2000 characters.
C21_ExactOnlyInHead ==
    RuleStageDone /\ TypesNamedIn(First2000(text)) = {} =>
        rule_result.confidence <= ScoreWithoutExact

\* C21, amended: the exact-match score 95 is earned by a keyword that occurs
\* anywhere in the lower-cased body, also after the first 2000 characters;
\* only when no keyword occurs anywhere in the body is the content scored
\* by the fuzzy ratio of the first 2000 characters times 0.8.
C21_ExactAnywhere ==
    RuleStageDone =>
        /\ TypesNamedIn(text.toks) # {} =>
              /\ rule_result.confidence >= ExactScore
              /\ rule_result.confidence = ExactScore =>
                    rule_result.type \in TypesNamedIn(text.toks)
        /\ TypesNamedIn(text.toks) = {} =>
              rule_result.confidence <= ScoreWithoutExact

\* A body that names a type only after its first 2000 characters, classified
\* with the exact-match score.
C21_Witness ==
    /\ RuleStageDone
    /\ TypesNamedIn(First2000(text)) = {}
    /\ rule_result.type \in TypesNamedIn(text.toks)
    /\ rule_result.confidence = ExactScore
    /\ ScoreWithoutExact < ExactScore

(***************************************************************************)
(* More claims about the checklist, under SpecChecklist                    *)
(***************************************************************************)
\* Some body of the documents holds the term, in any case of letters
BodiesHold(term) ==
    \E i \in DOMAIN documents :
       \E j \in DOMAIN documents[i].text.toks :
          term \in SubstringsOf(Lower(documents[i].text.toks[j]))

GuaranteeTerms == {"limited by guarantee", "guarantee"}
ShareTerms == {"limited by shares", "share capital", "shares"}

\* C22: entity_type is non-null exactly when the process is Company
\* Incorporation; it is then the guarantee variant if the bodies hold a
\* guarantee term (also when they hold a share term too) and the shares
\* variant otherwise, also when they hold neither.
C22_EntityType ==
    Inferred =>
        /\ process_info.entity_type # NoneVal
              <=> process_info.process = "Company Incorporation"
        /\ process_info.process = "Company Incorporation" =>
              process_info.entity_type =
                 IF \E term \in GuaranteeTerms : BodiesHold(term)
                 THEN Guarantee ELSE Shares

\* An incorporation whose bodies hold a guarantee term and a share term.
C22_Witness ==
    /\ Inferred
    /\ process_info.process = "Company Incorporation"
    /\ \E term \in GuaranteeTerms : BodiesHold(term)
    /\ \E term \in ShareTerms : BodiesHold(term)
    /\ process_info.entity_type = Guarantee

(***************************************************************************)
(* More claims about detect_issues, under SpecDetect                       *)
(***************************************************************************)
\* The six field groups of a UBO declaration, in their fixed order
FieldGroups ==
    <<"name", "birth", "nationality", "address", "passport", "ownership">>

\* The groups none of whose keywords occurs in the body of the document
MissingGroups ==
    {g \in Range(FieldGroups) :
        \A i \in DOMAIN required_fields :
           required_fields[i].field = g =>
              \A keyword \in required_fields[i].keywords :
                 \A j \in DOMAIN document.text.toks :
                    keyword \notin SubstringsOf(Lower(document.text.toks[j]))}

RECURSIVE Listed(_, _)
\* The groups of S from the i-th on, in the fixed order, separated by ", "
Listed(S, i) ==
    IF i > Len(FieldGroups) THEN ""
    ELSE LET rest == Listed(S, i + 1)
         IN IF FieldGroups[i] \notin S THEN rest
            ELSE IF rest = "" THEN FieldGroups[i]
            ELSE FieldGroups[i] \o ", " \o rest

\* The issues of the UBO-particulars rule among the issues of the document
ParticularsIssues ==
    SelectSeq(issues, LAMBDA x : x.section_hint = "Required particulars")

\* detect_issues has run its rules on a document with a classification and
\* a text
WellFormedDetected ==
    /\ pc \in {"semantic", "detected"}
    /\ HasClassification(document)
    /\ HasText(document)

\* C23: for a document classified UBO Declaration the UBO-particulars rule
\* writes exactly one High issue when at least one of the six field groups
\* has no keyword in the body, and the issue lists exactly the missing
\* groups in the fixed order; it writes no issue when all six groups are
\* covered, and none for a document of another type.
C23_UboParticulars ==
    WellFormedDetected =>
        IF document.classification.type = "UBO Declaration" /\ MissingGroups # {}
        THEN ParticularsIssues =
                << Issue("UBO Declaration", "Required particulars",
                         "Missing required UBO particulars: "
                             \o Listed(MissingGroups, 1),
                         "High") >>
        ELSE ParticularsIssues = <<>>

\* A UBO declaration that lacks the nationality and the passport groups.
C23_Witness ==
    /\ WellFormedDetected
    /\ document.classification.type = "UBO Declaration"
    /\ MissingGroups = {"nationality", "passport"}
    /\ Len(ParticularsIssues) = 1
    /\ ParticularsIssues[1].issue
          = "Missing required UBO particulars: nationality, passport"

\* The four types that get the semantic check, as the claim lists them
CriticalTypes ==
    {"Articles of Association", "Memorandum of Association",
     "UBO Declaration", "Commercial Agreement"}

\* detect_issues has returned for a document with a classification
ClassifiedDetected == pc = "detected" /\ HasClassification(document)

\* No issue of the semantic check stands before an issue of a rule check,
\* and a document that is not critical has no issue of the semantic check.
SemanticIssuesLast ==
    /\ \A i, j \in DOMAIN issues :
          i < j /\ issues[i].section_hint = "LLM Analysis"
             => issues[j].section_hint = "LLM Analysis"
    /\ document.classification.type \notin CriticalTypes =>
          \A i \in DOMAIN issues : issues[i].section_hint # "LLM Analysis"

ConfidentTypes ==
    {documents[i].classification.type :
        i \in {j \in DOMAIN documents :
                  documents[j].classification.confidence >= 500}}

\* The same with the equivalences: the combined register stands for both
\* registers, a Shareholder Resolution for the Board Resolution
PresentAfterEquivalences ==
    ConfidentTypes
        \cup (IF "Register of Members and Directors" \in ConfidentTypes
              THEN {"Register of Members", "Register of Directors"} ELSE {})
        \cup (IF "Shareholder Resolution" \in ConfidentTypes
              THEN {"Board Resolution"} ELSE {})

\* The documents the requirements table asks for the inferred process
RequiredSet ==
    LET p == process_info.process
    IN IF p = "Company Incorporation"
       THEN Range(process_requirements[p][process_info.entity_type])
       ELSE Range(process_requirements[p])

\* C25: the checklist result of a known process partitions the required
\* documents: present_documents and missing_documents are disjoint, their
\* union is the required set, missing is required minus present after the
\* equivalences, and status is complete exactly when nothing is missing,
\* incomplete otherwise; a process outside the requirements table gives
\* status unknown_process with empty present and missing lists.
C25_ChecklistPartition ==
    Validated =>
        LET r == checklist_result
        IN IF process_info.process \in DOMAIN process_requirements
           THEN /\ r.present_documents \cap r.missing_documents = {}
                /\ r.present_documents \cup r.missing_documents = RequiredSet
                /\ Range(r.required_documents) = RequiredSet
                /\ r.missing_documents = RequiredSet \ PresentAfterEquivalences
                /\ r.status = IF r.missing_documents = {}
                              THEN "complete" ELSE "incomplete"
           ELSE /\ r.status = "unknown_process"
                /\ r.present_documents = {}
                /\ r.missing_documents = {}

\* An incorporation with required documents present, others missing, and a
\* confident document of a type the process does not require.
C25_Witness ==
    /\ Validated
    /\ process_info.process = "Company Incorporation"
    /\ checklist_result.present_documents # {}
    /\ checklist_result.missing_documents # {}
    /\ ConfidentTypes \ RequiredSet # {}

(***************************************************************************)
(* More claims about the report, under SpecReport                          *)
(***************************************************************************)
\* validate_checklist has returned in the run
ChecklistDone == pc \in {"validated", "detect", "semantic", "detected", "reported"}

\* Every document of the run has a type the classifier can give
ClosedLabelSet ==
    \A i \in DOMAIN documents :
       documents[i].classification.type \in Labels \cup {"Unknown"}

\* C26: when the inferred process is Licensing and the document types come
\* from the closed label set of the classifier, the checklist is never
\* complete: "Business Plan" is required and no label, so it is always in
\* missing_documents, status is incomplete, completeness_score is at most
\* 0.5 and overall_compliance_score at most 70.
C26_LicensingNeverComplete ==
    (ChecklistDone /\ ClosedLabelSet /\ process_info.process = "Licensing") =>
        /\ "Business Plan" \notin Labels
        /\ "Business Plan" \in Range(checklist_result.required_documents)
        /\ "Business Plan" \in checklist_result.missing_documents
        /\ checklist_result.status = "incomplete"
        /\ ~LessFrac(Frac(1, 2), checklist_result.completeness_score)
        /\ pc = "reported" =>
              /\ report.overall_compliance_score <= 700
              /\ report.checklist_status = "incomplete"
              /\ "Business Plan" \in report.missing_documents

\* A Licensing run at the best a label set allows: the filing is present,
\* no issue is found, and the report scores exactly 70.
C26_Witness ==
    /\ pc = "reported"
    /\ ClosedLabelSet
    /\ process_info.process = "Licensing"
    /\ checklist_result.present_documents = {"Licensing Filing"}
    /\ SameFrac(checklist_result.completeness_score, Frac(1, 2))
    /\ report.total_issues = 0
    /\ report.overall_compliance_score = 700

(***************************************************************************)
(* A claim about infer_process and validate_checklist together, under      *)
(* SpecChecklist                                                           *)
(***************************************************************************)
\* The documents with every classification confidence set to c
WithConfidence(docs, c) ==
    [i \in DOMAIN docs |-> [docs[i] EXCEPT !.classification.confidence = c]]

\* Every document is classified below 0.5, and the documents have at least
\* three distinct incorporation indicators among their types
AllBelowHalf ==
    \A i \in DOMAIN documents : documents[i].classification.confidence < 500

ThreeIndicators ==
    Cardinality({documents[i].classification.type : i \in DOMAIN documents}
                   \cap incorporation_docs) >= 3

\* C27: the process does not depend on the classification confidences,
\* whereas validate_checklist ignores the documents below 0.5: documents of
\* three distinct incorporation indicators, all below 0.5, give Company
\* Incorporation at 0.9 with a checklist whose seven required documents are
\* all missing and whose completeness_score is 0.
C27_ProcessIgnoresConfidence ==
    /\ Inferred =>
          \A c \in {0, 450, 500, 1000} :
             process_info = infer_process(WithConfidence(documents, c))
    /\ (Validated /\ AllBelowHalf /\ ThreeIndicators) =>
          /\ process_info.process = "Company Incorporation"
          /\ process_info.confidence = 900
          /\ checklist_result.missing_documents = Range(IncorporationList)
          /\ Cardinality(checklist_result.missing_documents) = 7
          /\ checklist_result.present_documents = {}
          /\ checklist_result.status = "incomplete"
          /\ SameFrac(checklist_result.completeness_score, Frac(0, 1))

\* Exactly three documents, of three incorporation indicators, all below 0.5.
C27_Witness ==
    /\ Validated
    /\ Len(documents) = 3
    /\ AllBelowHalf
    /\ ThreeIndicators
    /\ process_info.process = "Company Incorporation"
    /\ Cardinality(checklist_result.missing_documents) = 7

(***************************************************************************)
(* A claim about the classifications classify returns, under SpecClassify  *)
(***************************************************************************)
\* C28: every classification returned by classify satisfies all of:
\* confidence >= 0.7 implies method rule_based; method llm_assisted implies
\* confidence 0.6 for a label and 0.3 for Unknown; method llm_failed implies
\* type Unknown, confidence 0.2 and a rule-stage confidence below 0.2; a
\* type other than Unknown implies confidence >= 0.4.
C28_ClassificationInvariants ==
    (Classified /\ ~result.raised) =>
        LET r == result.value
        IN /\ r.confidence >= 700 => r.method = "rule_based"
           /\ r.method = "llm_assisted" =>
                 \/ r.type \in Labels /\ r.confidence = 600
                 \/ r.type = "Unknown" /\ r.confidence = 300
           /\ r.method = "llm_failed" =>
                 /\ r.type = "Unknown"
                 /\ r.confidence = 200
                 /\ rule_result.confidence < 200
           /\ r.type # "Unknown" => r.confidence >= 400
           /\ r.method \in {"rule_based", "llm_assisted", "llm_failed"}

\* classify returned the result of a failed fallback over a rule stage at
\* 0.15.
C28_Witness ==
    /\ Classified
    /\ ~result.raised
    /\ result.value.method = "llm_failed"
    /\ rule_result.confidence = 150
    /\ rag_response.raised

(***************************************************************************)
(* A claim about the documents no rule table names, under SpecDetect       *)
(***************************************************************************)
\* Unknown and the six labels that appear in no rule table
PlainTypes ==
    {"Unknown", "Register of Members", "Register of Directors",
     "Register of Members and Directors", "Change of Registered Address Notice",
     "Compliance Policy", "Licensing Filing"}

\* The non-ADGM court phrases found in the body of the document
FoundCourts ==
    {c \in Range(bad_courts) :
        \E j \in DOMAIN document.text.toks :
           c \in SubstringsOf(Lower(document.text.toks[j]))}

\* The rules have run on a classified document of one of those types
PlainDetected ==
    /\ pc \in {"semantic", "detected"}
    /\ HasClassification(document)
    /\ document.classification.type \in PlainTypes

\* C29: for a document whose type is Unknown or a label of no rule table,
\* detect_issues returns only High issues with section hint "Jurisdiction
\* clause", one for each non-ADGM court phrase found in the body, and calls
\* neither service; the result is the same for every process_info.
C29_PlainTypesCourtsOnly ==
    PlainDetected =>
        /\ pc = "detected"
        /\ result = Ok(issues)
        /\ rag_calls = 0
        /\ llm_calls = 0
        /\ Len(issues) = Cardinality(FoundCourts)
        /\ \A i \in DOMAIN issues :
              /\ issues[i].severity = "High"
              /\ issues[i].section_hint = "Jurisdiction clause"
              /\ issues[i].document = document.classification.type
        /\ \A c \in FoundCourts :
              \E i \in DOMAIN issues :
                 issues[i].issue = "References " \o c \o " instead of ADGM Courts"
        /\ process_info \in ProcessInfos

\* A compliance policy naming three court phrases, detected for a Licensing
\* process.
C29_Witness ==
    /\ PlainDetected
    /\ document.classification.type = "Compliance Policy"
    /\ process_info.process = "Licensing"
    /\ Cardinality(FoundCourts) = 3
    /\ Len(issues) = 3

(***************************************************************************)
(* A claim about the recommendations of a report, under SpecReport         *)
(***************************************************************************)
JurisdictionMessage ==
    "Review and update jurisdiction clauses to reference ADGM Courts exclusively"

\* The high-priority messages a report of n issues can carry
HighPriorityMessages(n) ==
    {"Address " \o ToString(k) \o " high-priority compliance issues before submission" :
        k \in 1..n}

\* C30: in a report built from the issues of detect_issues, whenever the
\* recommendation to review the jurisdiction clauses appears, the
\* high-priority recommendation appears too and stands before it, because
\* every issue with a jurisdiction section hint has severity High; the
\* issues of the semantic check carry the section hint "LLM Analysis".
C30_HighBeforeJurisdiction ==
    Reported =>
        LET recs == report.recommendations
        IN /\ \A j \in DOMAIN recs :
                 recs[j].message = JurisdictionMessage =>
                    \E i \in 1..(j - 1) :
                       recs[i].message \in HighPriorityMessages(Len(all_issues))
           /\ \A k \in DOMAIN all_issues :
                 "jurisdiction" \in SubstringsOf(Lower(all_issues[k].section_hint))
                    => /\ all_issues[k].severity = "High"
                       /\ all_issues[k].section_hint = "Jurisdiction clause"

\* A report with the two recommendations and, among its issues, one of the
\* semantic check whose severity is not High.
C30_Witness ==
    /\ Reported
    /\ \E j \in DOMAIN report.recommendations :
          report.recommendations[j].message = JurisdictionMessage
    /\ \E k \in DOMAIN all_issues :
          /\ all_issues[k].section_hint = "LLM Analysis"
          /\ all_issues[k].severity # "High"
====
